---- MODULE Spec2Model ----
(***************************************************************************)
(* State-machine model of the Tableview grid editor (src/Tableview.tsx):   *)
(* the rows x columns matrix of cells, the selection / drag gesture, the   *)
(* merge and blank engines, the statistics counters, the snapshot codec    *)
(* and the effects that tie the component to its host attributes.          *)
(*                                                                         *)
(* Conventions.                                                            *)
(*  - A cell id `cell_<r>_<c>` is the pair <<r, c>>: every id the code     *)
(*    builds is made from the cell's own rowIndex/columnIndex, and the     *)
(*    parse in the handlers (replace, split, parseInt) returns that pair.  *)
(*  - A JS Set keeps insertion order and the code reads "the first"        *)
(*    selected id, so a Set is a duplicate-free sequence.                  *)
(*  - A string built from numbers (the merge id) is its digit sequence.    *)
(*  - A snapshot string is the JSON document it spells; absent fields of   *)
(*    a document are absent fields of the record.                          *)
(*  - Handlers and effects are operators on a record of the component's    *)
(*    state; an action applies a handler, then runs the effects until no   *)
(*    dependency changes (React's render / effect rounds), and commits.    *)
(***************************************************************************)
EXTENDS Integers, Sequences, FiniteSets, TLC

VARIABLES
    props,                    \* capability switches of the host configuration
    rowCountAttribute,        \* host value of the row-count attribute
    columnCountAttribute,     \* host value of the column-count attribute
    useAttributeData,         \* host value of the snapshot attribute
    rowCount, columnCount,    \* useState rowCount / columnCount
    tableRows,                \* useState tableRows
    selectedCells,            \* useState selectedCells (insertion ordered)
    isSelectionMode,
    isDragging, dragStartCell, preSelectionRef,
    isSaving, dataLoaded,
    lastSavedDataRef, isUserInputRef, ignoreAttributeUpdateRef,
    stats,                    \* the four counters last written to the host
    saveTimers,               \* pending setTimeout(() => setIsSaving(false))
    userInputTimers,          \* pending setTimeout(() => isUserInputRef = false)
    startupTimer,             \* the 100 ms start-up timer and its closure
    now,                      \* the clock read by new Date()
    lastOp,                   \* history: the handler that produced this state
    edits,                    \* history: number of accepted grid mutations
    mergeTrail,               \* history: the grid before the last merge
    clickNotified             \* history: the handler executed props.onCellClick

vars ==
    << props, rowCountAttribute, columnCountAttribute, useAttributeData,
       rowCount, columnCount, tableRows, selectedCells, isSelectionMode,
       isDragging, dragStartCell, preSelectionRef, isSaving, dataLoaded,
       lastSavedDataRef, isUserInputRef, ignoreAttributeUpdateRef, stats,
       saveTimers, userInputTimers, startupTimer, now, lastOp, edits,
       mergeTrail, clickNotified >>

(***************************************************************************)
(* Bounds of the model and constants of the program.                       *)
(***************************************************************************)
MaxDimension == 100

DefaultDimension == 3

MaxCells == 2

MaxEdits == 3

MaxClock == 1

MaxTimers == 1

EditValues == {"", "x"}

(***************************************************************************)
(* Small helpers.                                                          *)
(***************************************************************************)
Min(S) == CHOOSE x \in S : \A y \in S : x <= y

Max(S) == CHOOSE x \in S : \A y \in S : x >= y

Range(f) == {f[i] : i \in DOMAIN f}

\* Set.add on an insertion-ordered set.
SetAdd(seq, x) == IF x \in Range(seq) THEN seq ELSE Append(seq, x)

\* Set.delete on an insertion-ordered set.
SetDelete(seq, x) == SelectSeq(seq, LAMBDA y : y # x)

RECURSIVE SetAddAll(_, _)
SetAddAll(seq, more) ==
    IF more = <<>> THEN seq ELSE SetAddAll(SetAdd(seq, Head(more)), Tail(more))

RECURSIVE Digits(_)
Digits(n) == IF n < 10 THEN <<n>> ELSE Digits(n \div 10) \o <<n % 10>>

(***************************************************************************)
(* Cells, rows, lookup.                                                    *)
(***************************************************************************)
CellId(r, c) == <<r, c>>

DefaultCell(r, c) ==
    [ sequenceNumber |-> "-", isBlocked |-> FALSE, isMerged |-> FALSE,
      mergeId |-> <<>>, isBlank |-> FALSE, rowIndex |-> r, columnIndex |-> c,
      checked |-> FALSE, isSelected |-> FALSE, rowSpan |-> 1, colSpan |-> 1,
      isHidden |-> FALSE ]

DefaultRow(r, cols) ==
    [ rowIndex |-> r, cells |-> [j \in 1..cols |-> DefaultCell(r, j)] ]

createMergeId(r1, c1, r2, c2) == Digits(r1) \o Digits(c1) \o Digits(r2) \o Digits(c2)

\* rows.find(r => r.rowIndex === rowIndex): position of the first match, 0 if none.
FindRow(rows, r) ==
    LET hits == {i \in 1..Len(rows) : rows[i].rowIndex = r}
    IN  IF hits = {} THEN 0 ELSE Min(hits)

\* cells.find(c => c.columnIndex === colIndex): position of the first match, 0 if none.
FindColumn(cells, c) ==
    LET hits == {j \in 1..Len(cells) : cells[j].columnIndex = c}
    IN  IF hits = {} THEN 0 ELSE Min(hits)

\* rows.find(...)?.cells.find(...): <<i, j>> of the cell found, <<>> if undefined.
FindCell(rows, r, c) ==
    LET i == FindRow(rows, r)
    IN  IF i = 0 THEN <<>>
        ELSE LET j == FindColumn(rows[i].cells, c)
             IN  IF j = 0 THEN <<>> ELSE <<i, j>>

Positions(rows) ==
    UNION {{<<i, j>> : j \in 1..Len(rows[i].cells)} : i \in 1..Len(rows)}

CellAt(rows, p) == rows[p[1]].cells[p[2]]

\* rows.map(row => ({...row, cells: row.cells.map(cell => F(position, cell))}))
MapCells(rows, F(_, _)) ==
    [i \in 1..Len(rows) |->
        [rows[i] EXCEPT !.cells = [j \in 1..Len(rows[i].cells) |-> F(<<i, j>>, rows[i].cells[j])]]]

AllCells(rows) == {CellAt(rows, p) : p \in Positions(rows)}

(***************************************************************************)
(* createNewTable, addRow, addColumn: the matrices they build.             *)
(***************************************************************************)
\* Array.from({length: rows}, ...) of Array.from({length: cols}, ...)
NewTableRows(rows, cols) == [i \in 1..rows |-> DefaultRow(i, cols)]

\* [...prevRows] with one row of columnCount default cells pushed, indexed rowCount + 1
AddRowRows(prevRows, newRowCount, cols) == Append(prevRows, DefaultRow(newRowCount, cols))

\* every row gets one default cell appended, indexed (row.rowIndex, columnCount + 1)
AddColumnRows(prevRows, newColCount) ==
    [i \in 1..Len(prevRows) |->
        [prevRows[i] EXCEPT !.cells = Append(@, DefaultCell(prevRows[i].rowIndex, newColCount))]]

(***************************************************************************)
(* Value edit and checkbox toggle on the cell found at position p.         *)
(***************************************************************************)
ValueChangeRows(prevRows, p, newValue) ==
    LET target == CellAt(prevRows, p)
        Upd(q, cell) ==
            IF q = p \/ (target.mergeId # <<>> /\ cell.mergeId = target.mergeId)
            THEN [cell EXCEPT !.sequenceNumber = newValue]
            ELSE cell
    IN  MapCells(prevRows, Upd)

\* A toggle that leaves isBlocked alone: the faulty toggle that
\* C28_BlockedMirrorsChecked has to tell from the real one.
CheckboxChangeRowsCheckedOnly(prevRows, p) ==
    LET target == CellAt(prevRows, p)
        newChecked == ~target.checked
        Upd(q, cell) ==
            IF q = p \/ (target.mergeId # <<>> /\ cell.mergeId = target.mergeId)
            THEN [cell EXCEPT !.checked = newChecked, !.isSelected = newChecked]
            ELSE cell
    IN  MapCells(prevRows, Upd)

CheckboxChangeRows(prevRows, p) ==
    LET target == CellAt(prevRows, p)
        newChecked == ~target.checked
        Upd(q, cell) ==
            IF q = p \/ (target.mergeId # <<>> /\ cell.mergeId = target.mergeId)
            THEN [cell EXCEPT !.checked = newChecked, !.isBlocked = newChecked,
                              !.isSelected = newChecked]
            ELSE cell
    IN  MapCells(prevRows, Upd)

(***************************************************************************)
(* Rectangles and the merge engine.                                        *)
(***************************************************************************)
\* getRectangularSelection: ids of the inclusive rectangle, row by row.
RECURSIVE RectangleIds(_, _, _, _, _)
RectangleIds(r, c, maxRow, minCol, maxCol) ==
    IF r > maxRow THEN <<>>
    ELSE IF c > maxCol THEN RectangleIds(r + 1, minCol, maxRow, minCol, maxCol)
    ELSE <<CellId(r, c)>> \o RectangleIds(r, c + 1, maxRow, minCol, maxCol)

\* getRectangularSelection without the ordering of the corners: the faulty span that
\* C11_DragUnion has to tell from the real one.
getRectangularSelectionForward(startRow, startCol, endRow, endCol) ==
    RectangleIds(startRow, startCol, endRow, startCol, endCol)

getRectangularSelection(startRow, startCol, endRow, endCol) ==
    LET minRow == Min({startRow, endRow})
        maxRow == Max({startRow, endRow})
        minCol == Min({startCol, endCol})
        maxCol == Max({startCol, endCol})
    IN  RectangleIds(minRow, minCol, maxRow, minCol, maxCol)

\* The bounding rectangle of a non-empty selection.
Bounds(sel) ==
    [ minRow |-> Min({id[1] : id \in Range(sel)}), maxRow |-> Max({id[1] : id \in Range(sel)}),
      minCol |-> Min({id[2] : id \in Range(sel)}), maxCol |-> Max({id[2] : id \in Range(sel)}) ]

BoundsArea(b) == (b.maxRow - b.minRow + 1) * (b.maxCol - b.minCol + 1)

\* mergeCells' acceptance test: at least two ids, exactly as many as the bounding box.
IsRectangular(sel) == Len(sel) = BoundsArea(Bounds(sel))

\* Positions of the cells that the loops over the rectangle find.
RectanglePositions(rows, b) ==
    {FindCell(rows, r, c) : r \in b.minRow..b.maxRow, c \in b.minCol..b.maxCol} \ {<<>>}

\* Unmerged without the reset of isHidden: the faulty reset that the merge/unmerge
\* property C2_MergeUnmergeAmended has to tell from the real one.
UnmergedStillHidden(cell) ==
    [cell EXCEPT !.isMerged = FALSE, !.rowSpan = 1, !.colSpan = 1, !.mergeId = <<>>]

Unmerged(cell) ==
    [cell EXCEPT !.isMerged = FALSE, !.rowSpan = 1, !.colSpan = 1,
                 !.isHidden = FALSE, !.mergeId = <<>>]

\* DissolveRows that resets only the cells found in the rectangle: the faulty
\* dissolve that C17_MergeDissolvesOverlapped has to tell from the real one.
DissolveRowsInside(prevRows, b) ==
    LET found == RectanglePositions(prevRows, b)
        Upd(q, cell) == IF q \in found /\ cell.isMerged THEN Unmerged(cell) ELSE cell
    IN  MapCells(prevRows, Upd)

\* First loop of mergeCells: every group that owns a merged cell of the rectangle
\* is reset on all cells carrying its id.
DissolveRows(prevRows, b) ==
    LET oldIds == {CellAt(prevRows, p).mergeId :
                      p \in {q \in RectanglePositions(prevRows, b) :
                                CellAt(prevRows, q).isMerged /\ CellAt(prevRows, q).mergeId # <<>>}}
        Upd(q, cell) == IF cell.mergeId \in oldIds THEN Unmerged(cell) ELSE cell
    IN  MapCells(prevRows, Upd)

\* Second loop of mergeCells: the cells found in the rectangle take the top-left
\* cell's state and the new group id; the top-left carries the spans.
FormGroupRows(rows, b) ==
    LET mergeId == createMergeId(b.minRow, b.minCol, b.maxRow, b.maxCol)
        topLeft == CellAt(rows, FindCell(rows, b.minRow, b.minCol))
        found   == RectanglePositions(rows, b)
        Upd(q, cell) ==
            IF q \notin found THEN cell
            ELSE LET anchor == (cell.rowIndex = b.minRow /\ cell.columnIndex = b.minCol)
                 IN  [cell EXCEPT !.sequenceNumber = topLeft.sequenceNumber,
                                  !.checked = topLeft.checked,
                                  !.isBlocked = topLeft.isBlocked,
                                  !.isSelected = topLeft.isBlocked,
                                  !.isBlank = topLeft.isBlank,
                                  !.isMerged = TRUE,
                                  !.mergeId = mergeId,
                                  !.rowSpan = IF anchor THEN b.maxRow - b.minRow + 1 ELSE 1,
                                  !.colSpan = IF anchor THEN b.maxCol - b.minCol + 1 ELSE 1,
                                  !.isHidden = ~anchor]
    IN  MapCells(rows, Upd)

\* The updater of mergeCells; prevRows itself when the top-left cell is not found.
MergeRows(prevRows, b) ==
    LET dissolved == DissolveRows(prevRows, b)
    IN  IF FindCell(dissolved, b.minRow, b.minCol) = <<>> THEN prevRows
        ELSE FormGroupRows(dissolved, b)

\* UnmergeRows that resets every merged cell of the grid: the faulty reset that
\* C19_UnmergeFrame has to tell from the real one.
UnmergeRowsEveryGroup(prevRows, p) ==
    LET Upd(q, cell) == IF cell.isMerged THEN Unmerged(cell) ELSE cell
    IN  MapCells(prevRows, Upd)

\* The updater of unmergeCells for a target that is merged.
UnmergeRows(prevRows, p) ==
    LET mergeId == CellAt(prevRows, p).mergeId
        Upd(q, cell) == IF cell.mergeId = mergeId THEN Unmerged(cell) ELSE cell
    IN  MapCells(prevRows, Upd)

(***************************************************************************)
(* Blank engine.                                                           *)
(***************************************************************************)
\* The updater of blankSelectedCells (flag TRUE) / unblankSelectedCells (flag FALSE).
BlankRows(prevRows, sel, flag) ==
    LET hit == {p \in {FindCell(prevRows, id[1], id[2]) : id \in Range(sel)} \ {<<>>} :
                   ~CellAt(prevRows, p).isHidden}
        ids == {CellAt(prevRows, p).mergeId : p \in hit} \ {<<>>}
        Upd(q, cell) ==
            IF q \in hit \/ cell.mergeId \in ids THEN [cell EXCEPT !.isBlank = flag] ELSE cell
    IN  MapCells(prevRows, Upd)

(***************************************************************************)
(* Statistics.                                                             *)
(***************************************************************************)
CountCells(rows, P(_)) == Cardinality({p \in Positions(rows) : P(CellAt(rows, p))})

Statistics(rows) ==
    [ total   |-> CountCells(rows, LAMBDA c : TRUE),
      blocked |-> CountCells(rows, LAMBDA c : c.isBlocked),
      merged  |-> CountCells(rows, LAMBDA c : c.isMerged /\ ~c.isHidden),
      blank   |-> CountCells(rows, LAMBDA c : c.isBlank /\ ~c.isHidden) ]

NoStatistics == [total |-> -1, blocked |-> -1, merged |-> -1, blank |-> -1]
(***************************************************************************)
(* Snapshot codec.                                                         *)
(***************************************************************************)
\* The value "" of the snapshot attribute.
EmptyData == [kind |-> "empty"]

\* A value of the snapshot attribute that JSON.parse rejects.
GarbageData == [kind |-> "garbage"]

\* JSON.stringify({rows, columns, tableRows, metadata: {updatedAt}}): every row and
\* cell object is written with all its fields.
Encode(rows, rowCnt, colCnt, time) ==
    [kind |-> "json", rows |-> rowCnt, columns |-> colCnt, tableRows |-> rows,
     updatedAt |-> time]

Has(doc, field) == field \in DOMAIN doc

\* cell.sequenceNumber || "-"   (absent and "" are both falsy)
SequenceNumberOr(doc) ==
    IF Has(doc, "sequenceNumber") /\ doc.sequenceNumber # "" THEN doc.sequenceNumber ELSE "-"

\* cell.<flag> || false
FlagOr(doc, field) == Has(doc, field) /\ doc[field]

\* cell.<span> || 1   (absent and 0 are both falsy)
SpanOr(doc, field) == IF Has(doc, field) /\ doc[field] # 0 THEN doc[field] ELSE 1

\* cell.mergeId || ""
MergeIdOr(doc) == IF Has(doc, "mergeId") THEN doc.mergeId ELSE <<>>

\* The validatedCell built for the cell document at (rowIndex, colIndex).
\* A decode that derives isBlocked from checked whatever the snapshot says: the faulty
\* decode that C27_DecodeIsBlocked has to tell from the real one.
DecodeCellBlockedFromChecked(doc, rowIndex, colIndex) ==
    LET checkedState == FlagOr(doc, "checked")
    IN  [ sequenceNumber |-> SequenceNumberOr(doc),
          isBlocked |-> checkedState,
          isMerged |-> FlagOr(doc, "isMerged"),
          mergeId |-> MergeIdOr(doc),
          isBlank |-> FlagOr(doc, "isBlank"),
          rowIndex |-> rowIndex,
          columnIndex |-> colIndex,
          checked |-> checkedState,
          isSelected |-> FALSE,
          rowSpan |-> SpanOr(doc, "rowSpan"),
          colSpan |-> SpanOr(doc, "colSpan"),
          isHidden |-> FlagOr(doc, "isHidden") ]

DecodeCell(doc, rowIndex, colIndex) ==
    LET checkedState == FlagOr(doc, "checked")
    IN  [ sequenceNumber |-> SequenceNumberOr(doc),
          isBlocked |-> IF Has(doc, "isBlocked") THEN doc.isBlocked ELSE checkedState,
          isMerged |-> FlagOr(doc, "isMerged"),
          mergeId |-> MergeIdOr(doc),
          isBlank |-> FlagOr(doc, "isBlank"),
          rowIndex |-> rowIndex,
          columnIndex |-> colIndex,
          checked |-> checkedState,
          isSelected |-> FALSE,
          rowSpan |-> SpanOr(doc, "rowSpan"),
          colSpan |-> SpanOr(doc, "colSpan"),
          isHidden |-> FlagOr(doc, "isHidden") ]

\* tableData.tableRows.map((row, idx) => ...): positions become the indices.
DecodeRows(docs) ==
    [i \in 1..Len(docs) |->
        [ rowIndex |-> i,
          cells |-> [j \in 1..Len(docs[i].cells) |-> DecodeCell(docs[i].cells[j], i, j)] ]]

\* Decode without the guard on rows / columns: the faulty decode that
\* C15_MalformedIgnored has to tell from the real one.
DecodeUnguarded(data) ==
    IF data.kind # "json" THEN [ok |-> FALSE]
    ELSE IF ~Has(data, "tableRows") THEN [ok |-> FALSE]
    ELSE IF \E i \in 1..Len(data.tableRows) : ~Has(data.tableRows[i], "cells") THEN [ok |-> FALSE]
    ELSE [ok |-> TRUE, rows |-> data.rows, columns |-> data.columns,
          tableRows |-> DecodeRows(data.tableRows)]

\* The try block of the load effect up to the state updates: ok is FALSE when
\* JSON.parse throws, when the guard on tableRows / rows / columns fails, or when
\* a row without cells makes the map throw.
Decode(data) ==
    IF data.kind # "json" THEN [ok |-> FALSE]
    ELSE IF ~(Has(data, "tableRows") /\ data.rows > 0 /\ data.columns > 0) THEN [ok |-> FALSE]
    ELSE IF \E i \in 1..Len(data.tableRows) : ~Has(data.tableRows[i], "cells") THEN [ok |-> FALSE]
    ELSE [ok |-> TRUE, rows |-> data.rows, columns |-> data.columns,
          tableRows |-> DecodeRows(data.tableRows)]
(***************************************************************************)
(* The component's state as one record, so that handlers and effects       *)
(* compose.  rowsSet records that setTableRows installed a new array in    *)
(* the render being committed (what an effect's dependency on tableRows    *)
(* compares).                                                              *)
(***************************************************************************)
St ==
    [ rowCountAttribute |-> rowCountAttribute, columnCountAttribute |-> columnCountAttribute,
      useAttributeData |-> useAttributeData, rowCount |-> rowCount, columnCount |-> columnCount,
      tableRows |-> tableRows, selectedCells |-> selectedCells,
      isSelectionMode |-> isSelectionMode, isDragging |-> isDragging,
      dragStartCell |-> dragStartCell, preSelectionRef |-> preSelectionRef,
      isSaving |-> isSaving, dataLoaded |-> dataLoaded, lastSavedDataRef |-> lastSavedDataRef,
      isUserInputRef |-> isUserInputRef, ignoreAttributeUpdateRef |-> ignoreAttributeUpdateRef,
      stats |-> stats, saveTimers |-> saveTimers, userInputTimers |-> userInputTimers,
      rowsSet |-> FALSE, clickNotified |-> FALSE ]

\* attribute.setValue(new Big(n)) when the attribute is available
SetValue(attribute, n) == IF attribute.available THEN [attribute EXCEPT !.value = n] ELSE attribute

hasBlankingEnabled == props.enableCellBlanking

hasMergingEnabled == props.enableCellMerging

isSelectionAllowed == hasMergingEnabled \/ hasBlankingEnabled

getInitialRows(attribute) ==
    IF attribute.available THEN attribute.value ELSE DefaultDimension

getInitialColumns(attribute) ==
    IF attribute.available THEN attribute.value ELSE DefaultDimension

\* setTimeout(..., 100): one more pending timer.  Without real time, pending timers
\* beyond MaxTimers allow no behaviour that MaxTimers pending timers do not.
ArmTimer(pending) == IF pending < MaxTimers THEN pending + 1 ELSE pending

updateCellStatistics(s, rows) == [s EXCEPT !.stats = Statistics(rows)]

saveToBackend(s, rows, rowCnt, colCnt) ==
    LET jsonData == Encode(rows, rowCnt, colCnt, now)
    IN  [s EXCEPT !.isSaving = TRUE,
                  !.lastSavedDataRef = jsonData,
                  !.useAttributeData = jsonData,
                  !.ignoreAttributeUpdateRef = TRUE,
                  !.rowCountAttribute = SetValue(@, rowCnt),
                  !.columnCountAttribute = SetValue(@, colCnt),
                  !.stats = Statistics(rows),
                  !.saveTimers = ArmTimer(@)]

(***************************************************************************)
(* Effects.  r is the render the effect closes over (state and props), a   *)
(* the record being accumulated: refs and host attributes are read from a, *)
(* state from r.                                                           *)
(***************************************************************************)
\* The state updates of the load effect for the decoded document d.
LoadDecoded(r, a, d) ==
    IF ~d.ok THEN a
    ELSE [a EXCEPT !.rowCount = d.rows,
                   !.columnCount = d.columns,
                   !.ignoreAttributeUpdateRef = TRUE,
                   !.rowCountAttribute = SetValue(@, d.rows),
                   !.columnCountAttribute = SetValue(@, d.columns),
                   !.tableRows = d.tableRows,
                   !.rowsSet = TRUE,
                   !.selectedCells = <<>>,
                   !.isSelectionMode = FALSE,
                   !.dataLoaded = TRUE,
                   !.stats = Statistics(d.tableRows),
                   !.lastSavedDataRef = r.useAttributeData]

LoadEffect(r, a) ==
    IF r.isSaving THEN a
    ELSE IF r.useAttributeData = a.lastSavedDataRef /\ a.lastSavedDataRef # EmptyData THEN a
    ELSE IF r.useAttributeData = EmptyData THEN a
    ELSE LoadDecoded(r, a, Decode(r.useAttributeData))

ValidCount(v) == v > 0 /\ v <= MaxDimension

RowCountEffect(r, a) ==
    IF a.ignoreAttributeUpdateRef THEN [a EXCEPT !.ignoreAttributeUpdateRef = FALSE]
    ELSE IF /\ r.rowCountAttribute.available
            /\ ValidCount(r.rowCountAttribute.value)
            /\ r.rowCountAttribute.value # r.rowCount
            /\ ~a.isUserInputRef
         THEN [a EXCEPT !.rowCount = r.rowCountAttribute.value]
         ELSE a

ColumnCountEffect(r, a) ==
    IF a.ignoreAttributeUpdateRef THEN [a EXCEPT !.ignoreAttributeUpdateRef = FALSE]
    ELSE IF /\ r.columnCountAttribute.available
            /\ ValidCount(r.columnCountAttribute.value)
            /\ r.columnCountAttribute.value # r.columnCount
            /\ ~a.isUserInputRef
         THEN [a EXCEPT !.columnCount = r.columnCountAttribute.value]
         ELSE a

AutoSaveEffect(r, a) ==
    IF props.autoSave /\ Len(r.tableRows) > 0 /\ ~r.isSaving
    THEN saveToBackend(a, r.tableRows, r.rowCount, r.columnCount)
    ELSE a

StatisticsEffect(r, a) ==
    IF Len(r.tableRows) > 0 THEN updateCellStatistics(a, r.tableRows) ELSE a

\* One render committed after render p: the effects whose dependencies changed run
\* in the order of their declaration, each on the record a left by the ones before.
RunLoadEffect(p, r, mount, a) ==
    IF \/ mount
       \/ r.useAttributeData # p.useAttributeData
       \/ r.isSaving # p.isSaving
       \/ r.rowCountAttribute # p.rowCountAttribute
       \/ r.columnCountAttribute # p.columnCountAttribute
    THEN LoadEffect(r, a) ELSE a

RunRowCountEffect(p, r, mount, a) ==
    IF mount \/ r.rowCountAttribute.value # p.rowCountAttribute.value \/ r.rowCount # p.rowCount
    THEN RowCountEffect(r, a) ELSE a

RunColumnCountEffect(p, r, mount, a) ==
    IF mount \/ r.columnCountAttribute.value # p.columnCountAttribute.value
             \/ r.columnCount # p.columnCount
    THEN ColumnCountEffect(r, a) ELSE a

RunAutoSaveEffect(p, r, mount, a) ==
    IF mount \/ r.rowsSet \/ r.isSaving # p.isSaving
             \/ r.rowCount # p.rowCount \/ r.columnCount # p.columnCount
    THEN AutoSaveEffect(r, a) ELSE a

RunStatisticsEffect(p, r, mount, a) ==
    IF mount \/ r.rowsSet THEN StatisticsEffect(r, a) ELSE a

EffectsRound(p, r, mount) ==
    RunStatisticsEffect(p, r, mount,
        RunAutoSaveEffect(p, r, mount,
            RunColumnCountEffect(p, r, mount,
                RunRowCountEffect(p, r, mount,
                    RunLoadEffect(p, r, mount, [r EXCEPT !.rowsSet = FALSE])))))

\* Render / effect rounds until a round changes nothing.
RECURSIVE Settle(_, _, _)
SettleFrom(r, a) == IF a = [r EXCEPT !.rowsSet = FALSE] THEN a ELSE Settle(r, a, FALSE)

Settle(p, r, mount) == SettleFrom(r, EffectsRound(p, r, mount))

(***************************************************************************)
(* Handlers, as functions of the state record.                             *)
(***************************************************************************)
createNewTable(s, rows, cols) ==
    IF rows <= 0 \/ cols <= 0 THEN s
    ELSE LET newTableRows == NewTableRows(rows, cols)
         IN  saveToBackend([s EXCEPT !.tableRows = newTableRows, !.rowsSet = TRUE,
                                     !.selectedCells = <<>>, !.isSelectionMode = FALSE,
                                     !.dataLoaded = TRUE],
                           newTableRows, rows, cols)

\* DimensionsRejected without the upper limit: the faulty guard that
\* C8_OutOfRangeResizeRejected has to tell from the real one.
DimensionsRejectedNonPositive(rows, cols) == rows <= 0 \/ cols <= 0

\* The three alerts of applyDimensions.
DimensionsRejected(rows, cols) ==
    rows <= 0 \/ cols <= 0 \/ rows > MaxDimension \/ cols > MaxDimension

applyDimensions(s) ==
    IF DimensionsRejected(s.rowCount, s.columnCount) THEN s
    ELSE createNewTable([s EXCEPT !.ignoreAttributeUpdateRef = TRUE,
                                  !.rowCountAttribute = SetValue(@, s.rowCount),
                                  !.columnCountAttribute = SetValue(@, s.columnCount)],
                        s.rowCount, s.columnCount)

addRow(s) ==
    LET newRowCount == s.rowCount + 1
        newRows == AddRowRows(s.tableRows, newRowCount, s.columnCount)
    IN  IF newRowCount > MaxDimension THEN s
        ELSE saveToBackend([s EXCEPT !.isUserInputRef = TRUE,
                                     !.rowCount = newRowCount,
                                     !.rowCountAttribute = SetValue(@, newRowCount),
                                     !.tableRows = newRows, !.rowsSet = TRUE,
                                     !.userInputTimers = ArmTimer(@)],
                           newRows, newRowCount, s.columnCount)

addColumn(s) ==
    LET newColCount == s.columnCount + 1
        newRows == AddColumnRows(s.tableRows, newColCount)
    IN  IF newColCount > MaxDimension THEN s
        ELSE saveToBackend([s EXCEPT !.isUserInputRef = TRUE,
                                     !.columnCount = newColCount,
                                     !.columnCountAttribute = SetValue(@, newColCount),
                                     !.tableRows = newRows, !.rowsSet = TRUE,
                                     !.userInputTimers = ArmTimer(@)],
                           newRows, s.rowCount, newColCount)

\* if (props.onCellClick?.canExecute) props.onCellClick.execute()
executeOnCellClick(s) == [s EXCEPT !.clickNotified = TRUE]

handleCellValueChange(s, rowIndex, colIndex, newValue) ==
    LET p == FindCell(s.tableRows, rowIndex, colIndex)
    IN  IF p = <<>> THEN executeOnCellClick(s)
        ELSE LET newRows == ValueChangeRows(s.tableRows, p, newValue)
                 s1 == updateCellStatistics([executeOnCellClick(s) EXCEPT
                                                !.tableRows = newRows, !.rowsSet = TRUE],
                                            newRows)
             IN  IF props.autoSave THEN saveToBackend(s1, newRows, s.rowCount, s.columnCount)
                 ELSE s1

handleCheckboxChange(s, rowIndex, colIndex) ==
    LET p == FindCell(s.tableRows, rowIndex, colIndex)
    IN  IF p = <<>> THEN executeOnCellClick(s)
        ELSE LET newRows == CheckboxChangeRows(s.tableRows, p)
                 s1 == updateCellStatistics([executeOnCellClick(s) EXCEPT
                                                !.tableRows = newRows, !.rowsSet = TRUE],
                                            newRows)
             IN  IF props.autoSave THEN saveToBackend(s1, newRows, s.rowCount, s.columnCount)
                 ELSE s1

\* handleCellMouseDown without the test of isSelectionAllowed: the faulty entry
\* point that C22_SelectionDisallowed has to tell from the real one.
handleCellMouseDownAlways(s, rowIndex, colIndex, shiftKey) ==
    [s EXCEPT !.preSelectionRef = s.selectedCells,
              !.isDragging = TRUE,
              !.dragStartCell = <<rowIndex, colIndex>>,
              !.isSelectionMode = TRUE,
              !.selectedCells = IF shiftKey THEN SetAdd(@, CellId(rowIndex, colIndex))
                                ELSE <<CellId(rowIndex, colIndex)>>]

handleCellMouseDown(s, rowIndex, colIndex, shiftKey) ==
    IF ~isSelectionAllowed THEN s
    ELSE [s EXCEPT !.preSelectionRef = s.selectedCells,
                   !.isDragging = TRUE,
                   !.dragStartCell = <<rowIndex, colIndex>>,
                   !.isSelectionMode = TRUE,
                   !.selectedCells = IF shiftKey THEN SetAdd(@, CellId(rowIndex, colIndex))
                                     ELSE <<CellId(rowIndex, colIndex)>>]

\* handleCellMouseEnter that adds the rectangle to the current selection instead of
\* the restore-point: the faulty move that C24_DragMove has to tell from the real one.
handleCellMouseEnterOntoSelection(s, rowIndex, colIndex) ==
    IF ~s.isDragging \/ s.dragStartCell = <<>> THEN s
    ELSE LET dragged == getRectangularSelection(s.dragStartCell[1], s.dragStartCell[2],
                                                rowIndex, colIndex)
         IN  [s EXCEPT !.selectedCells = SetAddAll(s.selectedCells, dragged)]

handleCellMouseEnter(s, rowIndex, colIndex) ==
    IF ~s.isDragging \/ s.dragStartCell = <<>> THEN s
    ELSE LET dragged == getRectangularSelection(s.dragStartCell[1], s.dragStartCell[2],
                                                rowIndex, colIndex)
         IN  [s EXCEPT !.selectedCells = SetAddAll(s.preSelectionRef, dragged)]

\* onUp that forgets setIsDragging(false): the faulty release that
\* C23_DragProtocolEnd has to tell from the real one.
onUpStillDragging(s) ==
    IF s.isDragging
    THEN [s EXCEPT !.dragStartCell = <<>>, !.preSelectionRef = <<>>]
    ELSE s

onUp(s) ==
    IF s.isDragging
    THEN [s EXCEPT !.isDragging = FALSE, !.dragStartCell = <<>>, !.preSelectionRef = <<>>]
    ELSE s

\* handleCellClick whose modifier click removes even the last member: the faulty
\* toggle that C21_ClickInSelectionMode has to tell from the real one.
handleCellClickToggle(s, rowIndex, colIndex, isCtrlOrCmd) ==
    LET cellId == CellId(rowIndex, colIndex)
        has == cellId \in Range(s.selectedCells)
    IN  IF ~isSelectionAllowed THEN executeOnCellClick(s)
        ELSE IF s.isDragging THEN s
        ELSE IF s.isSelectionMode
        THEN [executeOnCellClick(s) EXCEPT !.selectedCells =
                 IF isCtrlOrCmd
                 THEN IF has THEN SetDelete(@, cellId) ELSE SetAdd(@, cellId)
                 ELSE SetAdd(@, cellId)]
        ELSE [executeOnCellClick(s) EXCEPT !.selectedCells = <<cellId>>,
                                           !.isSelectionMode = TRUE]

handleCellClick(s, rowIndex, colIndex, isCtrlOrCmd) ==
    LET cellId == CellId(rowIndex, colIndex)
        has == cellId \in Range(s.selectedCells)
    IN  IF ~isSelectionAllowed THEN executeOnCellClick(s)
        ELSE IF s.isDragging THEN s
        ELSE IF s.isSelectionMode
        THEN [executeOnCellClick(s) EXCEPT !.selectedCells =
                 IF isCtrlOrCmd
                 THEN IF has /\ Len(@) > 1 THEN SetDelete(@, cellId) ELSE SetAdd(@, cellId)
                 ELSE SetAdd(@, cellId)]
        ELSE [executeOnCellClick(s) EXCEPT !.selectedCells = <<cellId>>,
                                           !.isSelectionMode = TRUE]

\* tableRows.forEach(row => row.cells.forEach(cell => { if (!cell.isHidden) all.add(cell.id) }))
RECURSIVE VisibleIds(_, _, _)
VisibleIds(rows, i, j) ==
    IF i > Len(rows) THEN <<>>
    ELSE IF j > Len(rows[i].cells) THEN VisibleIds(rows, i + 1, 1)
    ELSE LET cell == rows[i].cells[j]
         IN  (IF cell.isHidden THEN <<>> ELSE <<CellId(cell.rowIndex, cell.columnIndex)>>)
             \o VisibleIds(rows, i, j + 1)

selectAllCells(s) ==
    IF ~isSelectionAllowed THEN s
    ELSE [s EXCEPT !.selectedCells = SetAddAll(<<>>, VisibleIds(s.tableRows, 1, 1)),
                   !.isSelectionMode = TRUE]

clearSelection(s) == [s EXCEPT !.selectedCells = <<>>, !.isSelectionMode = FALSE]

\* MergeRejected without the rectangle test: the faulty guard that
\* C6_NonRectangularRejected has to tell from the real one.
MergeRejectedBelowTwo(sel) == Len(sel) < 2

\* mergeCells returns before touching anything: fewer than two ids, or not a rectangle.
MergeRejected(sel) == Len(sel) < 2 \/ ~IsRectangular(sel)

mergeCells(s) ==
    IF MergeRejected(s.selectedCells) THEN s
    ELSE LET b == Bounds(s.selectedCells)
             newRows == MergeRows(s.tableRows, b)
             anchor == <<CellId(b.minRow, b.minCol)>>
         IN  IF FindCell(DissolveRows(s.tableRows, b), b.minRow, b.minCol) = <<>>
             THEN [s EXCEPT !.selectedCells = anchor]
             ELSE saveToBackend([s EXCEPT !.tableRows = newRows, !.rowsSet = TRUE,
                                          !.selectedCells = anchor],
                                newRows, s.rowCount, s.columnCount)

\* The position unmergeCells resets from: the first selected id, when it is merged.
UnmergeTarget(s) ==
    IF Len(s.selectedCells) = 0 THEN <<>>
    ELSE LET cellId == s.selectedCells[1]
             p == FindCell(s.tableRows, cellId[1], cellId[2])
         IN  IF p # <<>> /\ CellAt(s.tableRows, p).isMerged THEN p ELSE <<>>

unmergeCells(s) ==
    IF UnmergeTarget(s) = <<>> THEN s
    ELSE LET newRows == UnmergeRows(s.tableRows, UnmergeTarget(s))
         IN  saveToBackend([s EXCEPT !.tableRows = newRows, !.rowsSet = TRUE],
                           newRows, s.rowCount, s.columnCount)

blankSelectedCells(s) ==
    IF Len(s.selectedCells) = 0 THEN s
    ELSE LET newRows == BlankRows(s.tableRows, s.selectedCells, TRUE)
         IN  saveToBackend([s EXCEPT !.tableRows = newRows, !.rowsSet = TRUE,
                                     !.selectedCells = <<>>, !.isSelectionMode = FALSE],
                           newRows, s.rowCount, s.columnCount)

unblankSelectedCells(s) ==
    IF Len(s.selectedCells) = 0 THEN s
    ELSE LET newRows == BlankRows(s.tableRows, s.selectedCells, FALSE)
         IN  saveToBackend([s EXCEPT !.tableRows = newRows, !.rowsSet = TRUE,
                                     !.selectedCells = <<>>, !.isSelectionMode = FALSE],
                           newRows, s.rowCount, s.columnCount)
(***************************************************************************)
(* Inputs of the environment.                                              *)
(***************************************************************************)
Attribute(v) == [available |-> TRUE, value |-> v]

Unavailable == [available |-> FALSE, value |-> 0]

\* Host configurations explored: auto-save on or off, merging and blanking enabled.
Configs ==
    {[autoSave |-> a, enableCellMerging |-> TRUE, enableCellBlanking |-> TRUE] : a \in BOOLEAN}

\* Host configurations with neither merging nor blanking enabled.
DisallowedConfigs ==
    {[autoSave |-> a, enableCellMerging |-> FALSE, enableCellBlanking |-> FALSE] : a \in BOOLEAN}

\* Row / column counts the host supplies at construction.
InitCounts == {<<Attribute(1), Attribute(2)>>, <<Attribute(2), Attribute(0)>>}

\* Row / column counts the host writes into its attributes later.
HostCounts == {1, 2}

\* A snapshot written by an older version: fields missing, no timestamp.
LegacyCells == << [sequenceNumber |-> "x", checked |-> TRUE], [isBlocked |-> TRUE] >>

LegacyData ==
    [kind |-> "json", rows |-> 1, columns |-> 2, tableRows |-> << [cells |-> LegacyCells] >>]

\* A snapshot whose recorded row count is beyond the limit.
OversizeData ==
    [kind |-> "json", rows |-> MaxDimension + 1, columns |-> 2,
     tableRows |-> << [cells |-> LegacyCells] >>]

\* Snapshots that the guard of the load effect refuses, and one whose row has no cells.
ZeroRowsData ==
    [kind |-> "json", rows |-> 0, columns |-> 2, tableRows |-> << [cells |-> LegacyCells] >>]

NegativeColumnsData ==
    [kind |-> "json", rows |-> 1, columns |-> -1, tableRows |-> << [cells |-> LegacyCells] >>]

NoTableRowsData == [kind |-> "json", rows |-> 1, columns |-> 2]

NoCellsData == [kind |-> "json", rows |-> 1, columns |-> 2, tableRows |-> << [rowIndex |-> 1] >>]

MalformedData ==
    {GarbageData, ZeroRowsData, NegativeColumnsData, NoTableRowsData, NoCellsData}

\* Values the host puts into the snapshot attribute besides the component's own.
HostData == {GarbageData, LegacyData, OversizeData}

\* Values of the snapshot attribute at construction.
InitData == {EmptyData, LegacyData, OversizeData}

(***************************************************************************)
(* History.                                                                *)
(***************************************************************************)
NoBounds == [minRow |-> 0, maxRow |-> 0, minCol |-> 0, maxCol |-> 0]

NoTrail == [stage |-> "none", before |-> <<>>, rect |-> NoBounds]

\* The trail of a merge immediately followed by an unmerge: the grid before the merge
\* and the merged rectangle.  Any other change of the grid or the selection ends it.
TrailAfter(s, op, mutated) ==
    IF op = "merge" /\ mutated
    THEN [stage |-> "merged", before |-> tableRows, rect |-> Bounds(selectedCells)]
    ELSE IF op = "unmerge" /\ mutated /\ mergeTrail.stage = "merged"
    THEN [mergeTrail EXCEPT !.stage = "unmerged"]
    ELSE IF s.tableRows = tableRows /\ s.selectedCells = selectedCells
    THEN mergeTrail
    ELSE NoTrail

\* Pointer events, timers and clock ticks are not recorded as an operation.
Silent == ""

IdleTimer == [state |-> "idle", rows |-> 0, cols |-> 0]

(***************************************************************************)
(* Commit of a settled record.  op names the handler that ran, mutated     *)
(* tells whether it installed a new grid.  The start-up timer is cleared   *)
(* once dataLoaded has changed (the dependency of its effect).             *)
(***************************************************************************)
Commit(s, op, mutated, timer) ==
    /\ rowCountAttribute' = s.rowCountAttribute
    /\ columnCountAttribute' = s.columnCountAttribute
    /\ useAttributeData' = s.useAttributeData
    /\ rowCount' = s.rowCount
    /\ columnCount' = s.columnCount
    /\ tableRows' = s.tableRows
    /\ selectedCells' = s.selectedCells
    /\ isSelectionMode' = s.isSelectionMode
    /\ isDragging' = s.isDragging
    /\ dragStartCell' = s.dragStartCell
    /\ preSelectionRef' = s.preSelectionRef
    /\ isSaving' = s.isSaving
    /\ dataLoaded' = s.dataLoaded
    /\ lastSavedDataRef' = s.lastSavedDataRef
    /\ isUserInputRef' = s.isUserInputRef
    /\ ignoreAttributeUpdateRef' = s.ignoreAttributeUpdateRef
    /\ stats' = s.stats
    /\ saveTimers' = s.saveTimers
    /\ userInputTimers' = s.userInputTimers
    /\ startupTimer' = IF s.dataLoaded # dataLoaded THEN IdleTimer ELSE timer
    /\ lastOp' = op
    /\ edits' = IF mutated THEN edits + 1 ELSE edits
    /\ mergeTrail' = TrailAfter(s, op, mutated)
    /\ clickNotified' = s.clickNotified
    /\ UNCHANGED <<props, now>>

\* A handler's result s1 is rendered, its effects run, and the outcome is committed.
Handle(s1, op) ==
    \E s \in {Settle(St, s1, FALSE)} : Commit(s, op, s1.rowsSet, startupTimer)

Mounted == startupTimer.state # "unmounted"

\* The cells the table renders: hidden cells produce no <td>.
Rendered == {p \in Positions(tableRows) : ~CellAt(tableRows, p).isHidden}

\* The cells that render their checkbox and text input: not blank.
Editable == {p \in Rendered : ~CellAt(tableRows, p).isBlank}

\* The selection toolbar is rendered.
Toolbar == Mounted /\ Len(selectedCells) > 0 /\ isSelectionAllowed

(***************************************************************************)
(* Actions.                                                                *)
(***************************************************************************)
\* The state after construction, for the given host configurations, counts and snapshot.
InitWith(configs, counts, data) ==
    /\ props \in configs
    /\ \E c \in counts :
          /\ rowCountAttribute = c[1]
          /\ columnCountAttribute = c[2]
    /\ useAttributeData \in data
    /\ rowCount = getInitialRows(rowCountAttribute)
    /\ columnCount = getInitialColumns(columnCountAttribute)
    /\ tableRows = <<>>
    /\ selectedCells = <<>>
    /\ isSelectionMode = FALSE
    /\ isDragging = FALSE
    /\ dragStartCell = <<>>
    /\ preSelectionRef = <<>>
    /\ isSaving = FALSE
    /\ dataLoaded = FALSE
    /\ lastSavedDataRef = EmptyData
    /\ isUserInputRef = FALSE
    /\ ignoreAttributeUpdateRef = FALSE
    /\ stats = NoStatistics
    /\ saveTimers = 0
    /\ userInputTimers = 0
    /\ startupTimer = [state |-> "unmounted", rows |-> 0, cols |-> 0]
    /\ now = 0
    /\ lastOp = Silent
    /\ edits = 0
    /\ mergeTrail = NoTrail
    /\ clickNotified = FALSE

\* First render: every effect runs once; the start-up timer closes over the counts.
Mount ==
    /\ ~Mounted
    /\ \E s \in {Settle(St, St, TRUE)} :
          Commit(s, "mount", FALSE, [state |-> "armed", rows |-> rowCount, cols |-> columnCount])

\* The 100 ms start-up timer: its closure still sees no data and no rows.
StartupTimer ==
    /\ startupTimer.state = "armed"
    /\ \E s \in {Settle(St, createNewTable(St, startupTimer.rows, startupTimer.cols), FALSE)} :
          Commit(s, "startup", FALSE, IdleTimer)

\* setTimeout(() => setIsSaving(false), 100)
SaveTimer ==
    /\ saveTimers > 0
    /\ Handle([St EXCEPT !.isSaving = FALSE, !.saveTimers = @ - 1], Silent)

\* setTimeout(() => { isUserInputRef.current = false }, 100)
UserInputTimer ==
    /\ userInputTimers > 0
    /\ Commit([St EXCEPT !.isUserInputRef = FALSE, !.userInputTimers = @ - 1],
              Silent, FALSE, startupTimer)

Tick ==
    /\ now' = now + 1
    /\ lastOp' = Silent
    /\ clickNotified' = FALSE
    /\ UNCHANGED << props, rowCountAttribute, columnCountAttribute, useAttributeData,
                    rowCount, columnCount, tableRows, selectedCells, isSelectionMode,
                    isDragging, dragStartCell, preSelectionRef, isSaving, dataLoaded,
                    lastSavedDataRef, isUserInputRef, ignoreAttributeUpdateRef, stats,
                    saveTimers, userInputTimers, startupTimer, edits, mergeTrail >>

HostSetsData(data) ==
    /\ Mounted
    /\ data # useAttributeData
    /\ Handle([St EXCEPT !.useAttributeData = data], "hostData")

HostSetsRowCount(v) ==
    /\ Mounted
    /\ rowCountAttribute.available
    /\ v # rowCountAttribute.value
    /\ Handle([St EXCEPT !.rowCountAttribute.value = v], "hostRowCount")

HostSetsColumnCount(v) ==
    /\ Mounted
    /\ columnCountAttribute.available
    /\ v # columnCountAttribute.value
    /\ Handle([St EXCEPT !.columnCountAttribute.value = v], "hostColumnCount")

ApplyDimensions ==
    /\ Mounted
    /\ Handle(applyDimensions(St), "applyDimensions")

AddRow ==
    /\ Mounted
    /\ Handle(addRow(St), "addRow")

AddColumn ==
    /\ Mounted
    /\ Handle(addColumn(St), "addColumn")

CellValueChange(p, newValue) ==
    /\ Mounted
    /\ p \in Editable
    /\ newValue # CellAt(tableRows, p).sequenceNumber
    /\ LET cell == CellAt(tableRows, p)
       IN  Handle(handleCellValueChange(St, cell.rowIndex, cell.columnIndex, newValue),
                  "valueChange")

CheckboxChange(p) ==
    /\ Mounted
    /\ p \in Editable
    /\ LET cell == CellAt(tableRows, p)
       IN  Handle(handleCheckboxChange(St, cell.rowIndex, cell.columnIndex), "checkboxChange")

CellMouseDown(p, shiftKey) ==
    /\ Mounted
    /\ p \in Rendered
    /\ LET cell == CellAt(tableRows, p)
       IN  Handle(handleCellMouseDown(St, cell.rowIndex, cell.columnIndex, shiftKey), Silent)

CellMouseEnter(p) ==
    /\ Mounted
    /\ p \in Rendered
    /\ LET cell == CellAt(tableRows, p)
       IN  Handle(handleCellMouseEnter(St, cell.rowIndex, cell.columnIndex), Silent)

MouseUp ==
    /\ Mounted
    /\ Handle(onUp(St), Silent)

CellClick(p, isCtrlOrCmd) ==
    /\ Mounted
    /\ p \in Rendered
    /\ LET cell == CellAt(tableRows, p)
       IN  Handle(handleCellClick(St, cell.rowIndex, cell.columnIndex, isCtrlOrCmd), "click")

SelectAllCells ==
    /\ Toolbar
    /\ Handle(selectAllCells(St), Silent)

ClearSelection ==
    /\ Toolbar
    /\ Handle(clearSelection(St), Silent)

\* The Merge button is disabled below two selected cells.
MergeCells ==
    /\ Toolbar
    /\ hasMergingEnabled
    /\ Len(selectedCells) >= 2
    /\ Handle(mergeCells(St), "merge")

UnmergeCells ==
    /\ Toolbar
    /\ hasMergingEnabled
    /\ Handle(unmergeCells(St), "unmerge")

BlankSelectedCells ==
    /\ Toolbar
    /\ hasBlankingEnabled
    /\ Handle(blankSelectedCells(St), "blank")

UnblankSelectedCells ==
    /\ Toolbar
    /\ hasBlankingEnabled
    /\ Handle(unblankSelectedCells(St), "unblank")

(***************************************************************************)
(* Specifications.  Every specification uses the actions above; it chooses *)
(* the host's initial values and the events of the environment, and keeps  *)
(* the state space finite: at most MaxEdits grid mutations, and grids of   *)
(* at most MaxCells cells wherever the handler accepts the request.        *)
(***************************************************************************)
Budget == edits < MaxEdits

\* The start-up timer has fired (or was cleared by a load).
Started == startupTimer.state = "idle"

\* The user works the toolbar and the inputs of a cell with the mouse button released.
Idle == Started /\ ~isDragging

Fits(rows, cols) == rows * cols <= MaxCells

AllPositions == (1..MaxCells) \X (1..MaxCells)

\* Mount, and the timers the component arms.
Lifecycle ==
    \/ Mount
    \/ Fits(startupTimer.rows, startupTimer.cols) /\ StartupTimer
    \/ SaveTimer
    \/ UserInputTimer

\* A pointer that presses, moves over cells and releases; the toolbar's selection buttons.
Pointer(positions) ==
    \/ ~isDragging /\ \E p \in positions, shiftKey \in BOOLEAN : CellMouseDown(p, shiftKey)
    \/ isDragging /\ \E p \in positions : CellMouseEnter(p)
    \/ isDragging /\ MouseUp
    \/ ~isDragging /\ SelectAllCells
    \/ ~isDragging /\ ClearSelection

\* Requests that change the size of the grid.  A request the handler has to refuse for
\* its size is always made; one it accepts is made when the new grid fits.
Resize ==
    \/ /\ Fits(rowCount, columnCount) \/ rowCount > MaxDimension \/ columnCount > MaxDimension
       /\ ApplyDimensions
    \/ /\ \/ rowCount >= MaxDimension
          \/ Fits(rowCount + 1, columnCount) /\ Fits(Len(tableRows) + 1, columnCount)
       /\ AddRow
    \/ /\ \/ columnCount >= MaxDimension
          \/ Fits(rowCount, columnCount + 1) /\ Fits(Len(tableRows), columnCount + 1)
       /\ AddColumn

\* Edits of the cells at the given positions.
CellEdit(positions) ==
    \/ \E p \in positions, newValue \in EditValues : CellValueChange(p, newValue)
    \/ \E p \in positions : CheckboxChange(p)

\* The toolbar's merge and blank buttons.
GroupEdit ==
    \/ MergeCells
    \/ UnmergeCells
    \/ BlankSelectedCells
    \/ UnblankSelectedCells

(***************************************************************************)
(* Spec: a user session on grids of at most MaxCells cells, from every     *)
(* initial host value, with a clock of at most MaxClock ticks.             *)
(***************************************************************************)
Init == InitWith(Configs, InitCounts, InitData)

Next ==
    \/ Lifecycle
    \/ Started /\ Pointer(AllPositions)
    \/ Idle /\ Budget /\ Resize
    \/ Idle /\ Budget /\ CellEdit(AllPositions)
    \/ Idle /\ Budget /\ GroupEdit
    \/ now < MaxClock /\ Tick

Spec == Init /\ [][Next]_vars

(***************************************************************************)
(* SpecHost: from a default grid, the host writes the count attributes     *)
(* while the user drags, resizes and merges.                               *)
(***************************************************************************)
DefaultCounts == {<<Attribute(1), Attribute(2)>>}

\* A pointer that presses without modifier key, moves over cells and releases.
Drag(positions) ==
    \/ ~isDragging /\ \E p \in positions : CellMouseDown(p, FALSE)
    \/ isDragging /\ \E p \in positions : CellMouseEnter(p)
    \/ isDragging /\ MouseUp

InitHost == InitWith(Configs, DefaultCounts, {EmptyData})

NextHost ==
    \/ Lifecycle
    \/ Started /\ \E v \in HostCounts : HostSetsRowCount(v)
    \/ Started /\ \E v \in HostCounts : HostSetsColumnCount(v)
    \/ Started /\ Drag(AllPositions)
    \/ Idle /\ Budget /\ Resize
    \/ Idle /\ Budget /\ MergeCells

SpecHost == InitHost /\ [][NextHost]_vars

(***************************************************************************)
(* SpecShape: selections of every shape on a 2 x 2 grid, merge and unmerge. *)
(***************************************************************************)
ShapeCounts == {<<Attribute(2), Attribute(2)>>}

ShapePositions == {<<1, 1>>, <<1, 2>>, <<2, 1>>, <<2, 2>>}

\* A stored 2 x 2 snapshot whose cells differ from one another.
ShapeData ==
    [kind |-> "json", rows |-> 2, columns |-> 2,
     tableRows |-> << [cells |-> << [sequenceNumber |-> "x", checked |-> TRUE],
                                    [isBlank |-> TRUE] >>],
                      [cells |-> << [isBlocked |-> TRUE], [sequenceNumber |-> ""] >>] >>]

InitShape == InitWith(Configs, ShapeCounts, {EmptyData, ShapeData})

NextShape ==
    \/ Mount
    \/ StartupTimer
    \/ SaveTimer
    \/ Started /\ Pointer(ShapePositions)
    \/ Idle /\ Budget /\ MergeCells
    \/ Idle /\ Budget /\ UnmergeCells

SpecShape == InitShape /\ [][NextShape]_vars

(***************************************************************************)
(* SpecWide: an 11 x 12 grid, the smallest on which two disjoint           *)
(* rectangles, (1,11)-(1,12) and (11,1)-(11,2), spell the same merge id.   *)
(* The pointer presses their four cells; the text of the two left cells    *)
(* is edited.                                                              *)
(***************************************************************************)
WideCounts == {<<Attribute(11), Attribute(12)>>}

WidePositions == {<<1, 11>>, <<1, 12>>, <<11, 1>>, <<11, 2>>}

WideAnchors == {<<1, 11>>, <<11, 1>>}

WideConfigs == {c \in Configs : ~c.autoSave}

WideEdits == 3

InitWide == InitWith(WideConfigs, WideCounts, {EmptyData})

NextWide ==
    \/ Mount
    \/ StartupTimer
    \/ SaveTimer
    \/ Started /\ ~isDragging /\ \E p \in WidePositions, shiftKey \in BOOLEAN :
                                    CellMouseDown(p, shiftKey)
    \/ Started /\ isDragging /\ MouseUp
    \/ Idle /\ edits < WideEdits /\ \E p \in WideAnchors : CellValueChange(p, "x")
    \/ Idle /\ edits < WideEdits /\ MergeCells

SpecWide == InitWide /\ [][NextWide]_vars

(***************************************************************************)
(* SpecStale: on a 2 x 1 grid the host writes the count attributes while   *)
(* the user adds rows and edits cells, on grids of at most StaleCells      *)
(* cells.                                                                  *)
(***************************************************************************)
StaleCounts == {<<Attribute(2), Attribute(1)>>}

StaleCells == 3

StalePositions == (1..StaleCells) \X (1..StaleCells)

InitStale == InitWith(Configs, StaleCounts, {EmptyData})

NextStale ==
    \/ Lifecycle
    \/ Started /\ \E v \in HostCounts : HostSetsRowCount(v)
    \/ Started /\ \E v \in HostCounts : HostSetsColumnCount(v)
    \/ Idle /\ Budget /\ Cardinality(Positions(tableRows)) + columnCount <= StaleCells /\ AddRow
    \/ Idle /\ Budget /\ CellEdit(StalePositions)

SpecStale == InitStale /\ [][NextStale]_vars

(***************************************************************************)
(* SpecResize: from every initial host value, the user selects cells and   *)
(* asks for the grid to be resized.                                        *)
(***************************************************************************)
NextResize ==
    \/ Lifecycle
    \/ Started /\ Pointer(AllPositions)
    \/ Idle /\ Budget /\ Resize

SpecResize == Init /\ [][NextResize]_vars

(***************************************************************************)
(* SpecDrag: on a 2 x 2 grid every drag begins with a mouse-down without   *)
(* the shift key; the user drags, clears the selection and merges.         *)
(***************************************************************************)
NextDrag ==
    \/ Mount
    \/ StartupTimer
    \/ SaveTimer
    \/ Started /\ Drag(ShapePositions)
    \/ Started /\ ~isDragging /\ ClearSelection
    \/ Idle /\ Budget /\ MergeCells

SpecDrag == InitShape /\ [][NextDrag]_vars

(***************************************************************************)
(* SpecLoad: on a default 1 x 2 grid the host writes snapshots into the    *)
(* snapshot attribute while the user selects and edits cells.              *)
(***************************************************************************)
NextLoad ==
    \/ Mount
    \/ StartupTimer
    \/ SaveTimer
    \/ Started /\ \E data \in HostData : HostSetsData(data)
    \/ Started /\ Drag(AllPositions)
    \/ Idle /\ Budget /\ CellEdit(AllPositions)

SpecLoad == InitHost /\ [][NextLoad]_vars

(***************************************************************************)
(* SpecEcho: on a default 1 x 2 grid, without clock ticks, the host        *)
(* delivers the snapshot of the start-up save again, at any time after the *)
(* start-up, while the user selects, edits, merges and blanks cells.         *)
(***************************************************************************)
\* The snapshot that createNewTable saves for the default 1 x 2 grid at time 0.
StartupSnapshot == Encode(NewTableRows(1, 2), 1, 2, 0)

NextEcho ==
    \/ Mount
    \/ StartupTimer
    \/ SaveTimer
    \/ Started /\ HostSetsData(StartupSnapshot)
    \/ Started /\ Drag(AllPositions)
    \/ Idle /\ Budget /\ CellEdit(AllPositions)
    \/ Idle /\ Budget /\ GroupEdit

SpecEcho == InitHost /\ [][NextEcho]_vars

(***************************************************************************)
(* SpecMalformed: on a default 1 x 2 grid the host writes malformed        *)
(* snapshots, and a well-formed one, into the snapshot attribute while the *)
(* user selects cells and edits them.                                      *)
(***************************************************************************)
NextMalformed ==
    \/ Mount
    \/ StartupTimer
    \/ SaveTimer
    \/ Started /\ \E data \in MalformedData \cup {LegacyData} : HostSetsData(data)
    \/ Started /\ Drag(AllPositions)
    \/ Idle /\ Budget /\ CellEdit(AllPositions)

SpecMalformed == InitHost /\ [][NextMalformed]_vars


(***************************************************************************)
(* SpecStaleMerge: on a 2 x 1 grid the host writes the row count while the *)
(* user adds rows, drags over the cells, types into them and merges and    *)
(* unmerges the selection.                                                 *)
(***************************************************************************)
NextStaleMerge ==
    \/ Lifecycle
    \/ Started /\ \E v \in HostCounts : HostSetsRowCount(v)
    \/ Started /\ Drag(StalePositions)
    \/ Idle /\ Budget /\ Cardinality(Positions(tableRows)) + columnCount <= StaleCells /\ AddRow
    \/ Idle /\ Budget /\ \E p \in StalePositions : CellValueChange(p, "x")
    \/ Idle /\ Budget /\ MergeCells
    \/ Idle /\ Budget /\ UnmergeCells

SpecStaleMerge == InitStale /\ [][NextStaleMerge]_vars

(***************************************************************************)
(* SpecBlank: a stored 2 x 3 grid with the group (1,1)-(1,2); the user     *)
(* drags over the cells and blanks and unblanks the selection.  A drag     *)
(* from (1,3) to (2,2) selects the hidden cell (1,2) without its anchor.   *)
(***************************************************************************)
BlankCounts == {<<Attribute(2), Attribute(3)>>}

BlankPositions == {<<1, 1>>, <<1, 3>>, <<2, 2>>}

\* The snapshot the component saves for a 2 x 3 grid after a merge of (1,1)-(1,2).
BlankData ==
    [kind |-> "json", rows |-> 2, columns |-> 3,
     tableRows |->
        << [cells |-> << [sequenceNumber |-> "x", checked |-> TRUE, isBlocked |-> TRUE,
                          isMerged |-> TRUE, colSpan |-> 2, mergeId |-> createMergeId(1, 1, 1, 2)],
                         [sequenceNumber |-> "x", checked |-> TRUE, isBlocked |-> TRUE,
                          isMerged |-> TRUE, isHidden |-> TRUE,
                          mergeId |-> createMergeId(1, 1, 1, 2)],
                         [sequenceNumber |-> "-"] >>],
           [cells |-> << [sequenceNumber |-> "-"], [isBlank |-> TRUE],
                         [sequenceNumber |-> "x"] >>] >>]

InitBlank == InitWith(Configs, BlankCounts, {BlankData})

NextBlank ==
    \/ Mount
    \/ SaveTimer
    \/ Started /\ Drag(BlankPositions)
    \/ Idle /\ Budget /\ BlankSelectedCells
    \/ Idle /\ Budget /\ UnblankSelectedCells

SpecBlank == InitBlank /\ [][NextBlank]_vars


(***************************************************************************)
(* SpecStaleBlank: on a 2 x 1 grid the host writes the row count while the *)
(* user adds rows, drags over the cells and blanks and unblanks the        *)
(* selection.                                                              *)
(***************************************************************************)
NextStaleBlank ==
    \/ Lifecycle
    \/ Started /\ \E v \in HostCounts : HostSetsRowCount(v)
    \/ Started /\ Drag(StalePositions)
    \/ Idle /\ Budget /\ Cardinality(Positions(tableRows)) + columnCount <= StaleCells /\ AddRow
    \/ Idle /\ Budget /\ BlankSelectedCells
    \/ Idle /\ Budget /\ UnblankSelectedCells

SpecStaleBlank == InitStale /\ [][NextStaleBlank]_vars

(***************************************************************************)
(* SpecClick: on a 2 x 2 grid the user drags over the cells, clicks them   *)
(* with and without the modifier key and clears the selection.             *)
(***************************************************************************)
Click(positions) == \E p \in positions, isCtrlOrCmd \in BOOLEAN : CellClick(p, isCtrlOrCmd)

NextClick ==
    \/ Mount
    \/ StartupTimer
    \/ SaveTimer
    \/ Started /\ Drag(ShapePositions)
    \/ Started /\ Click(ShapePositions)
    \/ Started /\ ~isDragging /\ ClearSelection

SpecClick == InitShape /\ [][NextClick]_vars

(***************************************************************************)
(* SpecDisallowed: neither merging nor blanking is enabled.  Every pointer *)
(* event reaches its handler whatever the drag state, and selectAllCells   *)
(* is called although its button is not rendered; the user edits cells.    *)
(***************************************************************************)
\* selectAllCells called without its button.
SelectAllCalled ==
    /\ Mounted
    /\ Handle(selectAllCells(St), Silent)

InitDisallowed == InitWith(DisallowedConfigs, DefaultCounts, {EmptyData})

NextDisallowed ==
    \/ Mount
    \/ StartupTimer
    \/ SaveTimer
    \/ Started /\ \E p \in AllPositions, shiftKey \in BOOLEAN : CellMouseDown(p, shiftKey)
    \/ Started /\ \E p \in AllPositions : CellMouseEnter(p)
    \/ Started /\ MouseUp
    \/ Started /\ Click(AllPositions)
    \/ Started /\ SelectAllCalled
    \/ Started /\ Budget /\ CellEdit(AllPositions)

SpecDisallowed == InitDisallowed /\ [][NextDisallowed]_vars

(***************************************************************************)
(* SpecPointer: on a 2 x 2 grid every pointer event reaches its handler    *)
(* whatever the drag state: presses with and without the shift key, moves  *)
(* into cells with the button up or down, releases.                        *)
(***************************************************************************)
NextPointer ==
    \/ Mount
    \/ StartupTimer
    \/ SaveTimer
    \/ Started /\ \E p \in ShapePositions, shiftKey \in BOOLEAN : CellMouseDown(p, shiftKey)
    \/ Started /\ \E p \in ShapePositions : CellMouseEnter(p)
    \/ Started /\ MouseUp

SpecPointer == InitShape /\ [][NextPointer]_vars

(***************************************************************************)
(* SpecDragMove: on a 2 x 2 grid the user presses with and without the     *)
(* shift key, drags, releases and merges the selection.                    *)
(***************************************************************************)
NextDragMove ==
    \/ Mount
    \/ StartupTimer
    \/ SaveTimer
    \/ Started /\ ~isDragging
               /\ \E p \in ShapePositions, shiftKey \in BOOLEAN : CellMouseDown(p, shiftKey)
    \/ Started /\ isDragging /\ \E p \in ShapePositions : CellMouseEnter(p)
    \/ Started /\ isDragging /\ MouseUp
    \/ Idle /\ Budget /\ MergeCells

SpecDragMove == InitShape /\ [][NextDragMove]_vars

(***************************************************************************)
(* SpecDecode: the component finds no snapshot or the legacy snapshot at   *)
(* construction, and the host delivers snapshots while the user drags a    *)
(* selection over the cells.                                               *)
(***************************************************************************)
InitDecode == InitWith(Configs, DefaultCounts, {EmptyData, LegacyData})

NextDecode ==
    \/ Mount
    \/ StartupTimer
    \/ SaveTimer
    \/ Started /\ \E data \in HostData : HostSetsData(data)
    \/ Started /\ Drag(AllPositions)

SpecDecode == InitDecode /\ [][NextDecode]_vars

(***************************************************************************)
(* SpecMirror: from a default 1 x 1 grid the user edits, toggles, merges,  *)
(* unmerges, blanks, unblanks, adds rows and columns and resizes, on grids *)
(* of at most MirrorCells cells, while the host delivers snapshots that    *)
(* the component writes at time 0.                                         *)
(***************************************************************************)
MirrorCells == 2

MirrorCounts == {<<Attribute(1), Attribute(1)>>}

MirrorPositions == (1..MirrorCells) \X (1..MirrorCells)

\* The snapshots of the default 1 x 1 grid and of the same grid with its cell checked.
MirrorSnapshots ==
    { Encode(NewTableRows(1, 1), 1, 1, 0),
      Encode(CheckboxChangeRows(NewTableRows(1, 1), <<1, 1>>), 1, 1, 0) }

InitMirror == InitWith(Configs, MirrorCounts, {EmptyData})

NextMirror ==
    \/ Mount
    \/ StartupTimer
    \/ SaveTimer
    \/ Started /\ \E data \in MirrorSnapshots : HostSetsData(data)
    \/ Started /\ Drag(MirrorPositions)
    \/ Idle /\ Budget /\ rowCount * columnCount <= MirrorCells /\ ApplyDimensions
    \/ Idle /\ Budget /\ (rowCount + 1) * columnCount <= MirrorCells /\ AddRow
    \/ Idle /\ Budget /\ rowCount * (columnCount + 1) <= MirrorCells /\ AddColumn
    \/ Idle /\ Budget /\ CellEdit(MirrorPositions)
    \/ Idle /\ Budget /\ GroupEdit

SpecMirror == InitMirror /\ [][NextMirror]_vars

(***************************************************************************)
(* SpecStartup: the start-up from every kind of initial host value (count  *)
(* attributes unavailable, valid or zero; no snapshot, an unparsable one   *)
(* or the legacy snapshot), followed by drags over the grid.  The mount    *)
(* and the 100 ms start-up timer are not postponed forever: React commits  *)
(* the first render and the browser runs a pending timer.                  *)
(***************************************************************************)
StartupCounts ==
    {<<Unavailable, Unavailable>>, <<Attribute(1), Attribute(2)>>, <<Attribute(2), Attribute(0)>>}

StartupData == {EmptyData, GarbageData, LegacyData}

InitStartup == InitWith(Configs, StartupCounts, StartupData)

NextStartup ==
    \/ Mount
    \/ StartupTimer
    \/ SaveTimer
    \/ Started /\ Drag(AllPositions)

SpecStartup == InitStartup /\ [][NextStartup]_vars /\ WF_vars(Mount) /\ WF_vars(StartupTimer)

(***************************************************************************)
(* SpecDragLoad: on a default 2 x 2 grid the host delivers the 1 x 2       *)
(* legacy snapshot while the user drags a selection over the cells.        *)
(***************************************************************************)
InitDragLoad == InitWith(Configs, ShapeCounts, {EmptyData})

NextDragLoad ==
    \/ Mount
    \/ StartupTimer
    \/ SaveTimer
    \/ Started /\ HostSetsData(LegacyData)
    \/ Started /\ Drag(ShapePositions)

SpecDragLoad == InitDragLoad /\ [][NextDragLoad]_vars

(***************************************************************************)
(* SpecQuiesce: on a default 1 x 2 grid the user edits cells at most       *)
(* MaxEdits times while the clock advances at most MaxClock ticks; after   *)
(* that only the timers run.  The mount and the pending 100 ms timers are  *)
(* not postponed forever.                                                  *)
(***************************************************************************)
NextQuiesce ==
    \/ Mount
    \/ StartupTimer
    \/ SaveTimer
    \/ Idle /\ Budget /\ CellEdit(AllPositions)
    \/ now < MaxClock /\ Tick

SpecQuiesce ==
    /\ InitHost
    /\ [][NextQuiesce]_vars
    /\ WF_vars(Mount)
    /\ WF_vars(StartupTimer)
    /\ WF_vars(SaveTimer)

(***************************************************************************)
(* Properties.                                                             *)
(***************************************************************************)
GridExists == tableRows # <<>>

\* The fields of a cell that the round trip has to reproduce.
Persisted(cell) ==
    << cell.sequenceNumber, cell.checked, cell.isBlocked, cell.isMerged, cell.mergeId,
       cell.isBlank, cell.rowSpan, cell.colSpan, cell.isHidden >>

SameShape(rows1, rows2) ==
    /\ Len(rows1) = Len(rows2)
    /\ \A i \in 1..Len(rows1) : Len(rows1[i].cells) = Len(rows2[i].cells)

RoundTrips(rows, rowCnt, colCnt) ==
    LET d == Decode(Encode(rows, rowCnt, colCnt, now))
    IN  /\ d.ok
        /\ d.rows = rowCnt
        /\ d.columns = colCnt
        /\ SameShape(d.tableRows, rows)
        /\ \A p \in Positions(rows) :
              Persisted(CellAt(d.tableRows, p)) = Persisted(CellAt(rows, p))

\* C1 (as claimed): decoding the snapshot that encodes the current grid gives back its
\* rows and columns and every cell's sequenceNumber, checked, isBlocked, isMerged,
\* mergeId, isBlank, rowSpan, colSpan and isHidden.  Stated for grids whose recorded
\* counts are positive, the only ones the decoder accepts.
C1_RoundTrip ==
    (GridExists /\ rowCount > 0 /\ columnCount > 0)
        => RoundTrips(tableRows, rowCount, columnCount)

\* The merge groups of a grid: the non-empty group ids and the cells carrying them.
GroupIds(rows) == {cell.mergeId : cell \in AllCells(rows)} \ {<<>>}

Members(rows, id) == {p \in Positions(rows) : CellAt(rows, p).mergeId = id}

NoGroups(rows) == \A cell \in AllCells(rows) : ~cell.isMerged /\ cell.mergeId = <<>>

\* A merge of an exact rectangle on a grid without groups, undone by the next mutation.
MergedThenUnmerged == mergeTrail.stage = "unmerged" /\ NoGroups(mergeTrail.before)

TrailPositions == RectanglePositions(mergeTrail.before, mergeTrail.rect)

ValueAndChecked(rows, p) == <<CellAt(rows, p).sequenceNumber, CellAt(rows, p).checked>>

DefaultShape(cell) ==
    /\ ~cell.isMerged
    /\ ~cell.isHidden
    /\ cell.rowSpan = 1
    /\ cell.colSpan = 1
    /\ cell.mergeId = <<>>

\* The rectangle holds each (value, checked) pair as often as before the merge.
SameBag ==
    \A p \in TrailPositions :
        Cardinality({q \in TrailPositions :
                        ValueAndChecked(tableRows, q) = ValueAndChecked(mergeTrail.before, p)})
            = Cardinality({q \in TrailPositions :
                        ValueAndChecked(mergeTrail.before, q) = ValueAndChecked(mergeTrail.before, p)})

\* C2 (as claimed): after merge then unmerge of an exact rectangle on a grid without
\* groups, every cell of the rectangle has the default shape and the multiset of
\* (value, checked) pairs over the rectangle is the one before the merge.
C2_MergeUnmergeInverse ==
    MergedThenUnmerged
        => /\ \A p \in TrailPositions : DefaultShape(CellAt(tableRows, p))
           /\ SameBag

\* C2 (amended): after merge then unmerge of an exact rectangle on a grid without
\* groups, every cell that the merge looked up for a coordinate of the rectangle has
\* the default shape and holds the value and the checked state that the rectangle's
\* top-left cell had before the merge.
C2_MergeUnmergeAmended ==
    MergedThenUnmerged
        => LET topLeft == FindCell(mergeTrail.before, mergeTrail.rect.minRow,
                                   mergeTrail.rect.minCol)
           IN  \A p \in TrailPositions :
                  /\ DefaultShape(CellAt(tableRows, p))
                  /\ ValueAndChecked(tableRows, p) = ValueAndChecked(mergeTrail.before, topLeft)

\* A merge then unmerge over cells that differed in value or checked state.
C2_Witness ==
    /\ MergedThenUnmerged
    /\ \E p, q \in TrailPositions :
          ValueAndChecked(mergeTrail.before, p) # ValueAndChecked(mergeTrail.before, q)

Coordinates(rows, M) == {<<CellAt(rows, p).rowIndex, CellAt(rows, p).columnIndex>> : p \in M}

Box(coords) ==
    [ minRow |-> Min({c[1] : c \in coords}), maxRow |-> Max({c[1] : c \in coords}),
      minCol |-> Min({c[2] : c \in coords}), maxCol |-> Max({c[2] : c \in coords}) ]

BoxCells(b) == (b.minRow..b.maxRow) \X (b.minCol..b.maxCol)

GroupBox(rows, id) == Box(Coordinates(rows, Members(rows, id)))

WellShapedGroup(rows, id) ==
    LET M == Members(rows, id)
        b == GroupBox(rows, id)
    IN  /\ Coordinates(rows, M) = BoxCells(b)
        /\ Cardinality(M) = Cardinality(BoxCells(b))
        /\ \A p \in M :
              LET cell == CellAt(rows, p)
              IN  /\ cell.isMerged
                  /\ IF cell.rowIndex = b.minRow /\ cell.columnIndex = b.minCol
                     THEN /\ ~cell.isHidden
                          /\ cell.rowSpan = b.maxRow - b.minRow + 1
                          /\ cell.colSpan = b.maxCol - b.minCol + 1
                     ELSE /\ cell.isHidden
                          /\ cell.rowSpan = 1
                          /\ cell.colSpan = 1

\* C3 (as claimed): the cells sharing a non-empty group id form exactly one rectangle,
\* whose top-left cell alone is visible and carries the rectangle's height and width
\* as spans, every other member being hidden with spans 1, every member merged; and no
\* two groups overlap.
C3_GroupShape ==
    /\ \A id \in GroupIds(tableRows) : WellShapedGroup(tableRows, id)
    /\ \A id1, id2 \in GroupIds(tableRows) :
          id1 # id2 => BoxCells(GroupBox(tableRows, id1)) \cap BoxCells(GroupBox(tableRows, id2)) = {}

GroupState(cell) == <<cell.sequenceNumber, cell.checked, cell.isBlocked, cell.isBlank>>

\* C4 (as claimed): all cells sharing a non-empty group id have the same
\* sequenceNumber, checked, isBlocked and isBlank.
C4_GroupState ==
    \A id \in GroupIds(tableRows) :
        Cardinality({GroupState(CellAt(tableRows, p)) : p \in Members(tableRows, id)}) = 1

\* C5 (as claimed): the recorded row count is the number of rows, the recorded column
\* count the number of cells of every row, and every row and cell is indexed by its
\* 1-based position in the matrix.
C5_GridShape ==
    GridExists
        => /\ rowCount = Len(tableRows)
           /\ \A i \in 1..Len(tableRows) :
                 /\ tableRows[i].rowIndex = i
                 /\ Len(tableRows[i].cells) = columnCount
                 /\ \A j \in 1..Len(tableRows[i].cells) :
                       /\ tableRows[i].cells[j].rowIndex = i
                       /\ tableRows[i].cells[j].columnIndex = j

\* The selection's size differs from the cell count of its bounding rectangle.
NonRectangular(sel) ==
    Len(sel) # (Max({id[1] : id \in Range(sel)}) - Min({id[1] : id \in Range(sel)}) + 1)
                 * (Max({id[2] : id \in Range(sel)}) - Min({id[2] : id \in Range(sel)}) + 1)

\* No snapshot is written: the snapshot attribute, the last saved snapshot and the
\* save in flight stay as they are.
NoSnapshot == UNCHANGED <<useAttributeData, lastSavedDataRef, isSaving, saveTimers>>

\* C6: a merge request on a selection whose size differs from the cell count of its
\* bounding rectangle changes no cell, leaves the selection and the selection mode as
\* they are, and writes no snapshot.
C6_NonRectangularRejected ==
    [][(lastOp' = "merge" /\ NonRectangular(selectedCells))
          => /\ UNCHANGED <<tableRows, selectedCells, isSelectionMode>>
             /\ NoSnapshot]_vars

\* The L-shape {(1,1), (1,2), (2,2)} is still selected after a merge request.
C6_Witness ==
    /\ lastOp = "merge"
    /\ Range(selectedCells) = {<<1, 1>>, <<1, 2>>, <<2, 2>>}

\* C7 (as claimed): the row count and the column count are both within 1..100.
C7_DimensionBounds ==
    Mounted => (rowCount \in 1..MaxDimension /\ columnCount \in 1..MaxDimension)

OutOfRange(n) == n <= 0 \/ n > MaxDimension

\* C8: a resize request whose row count or column count is <= 0 or > 100 leaves the
\* matrix, the dimensions, the count attributes and the selection as they are and
\* writes no snapshot.
C8_OutOfRangeResizeRejected ==
    [][(lastOp' = "applyDimensions" /\ (OutOfRange(rowCount) \/ OutOfRange(columnCount)))
          => /\ UNCHANGED <<tableRows, rowCount, columnCount, rowCountAttribute,
                            columnCountAttribute, selectedCells, isSelectionMode>>
             /\ NoSnapshot]_vars

\* A resize request was made with 101 rows recorded, on an existing grid.
C8_Witness ==
    /\ lastOp = "applyDimensions"
    /\ rowCount = MaxDimension + 1
    /\ GridExists

\* C9 (as claimed): toggling the checkbox of a cell negates that cell's checked and
\* makes its isBlocked the new checked; a value edit changes isBlocked and checked on
\* no cell.  CheckboxChange(p) is the toggle of the checkbox rendered at position p.
C9_CheckboxBlockedCoupling ==
    [][/\ \A p \in Positions(tableRows) :
             CheckboxChange(p)
                => /\ CellAt(tableRows', p).checked = ~CellAt(tableRows, p).checked
                   /\ CellAt(tableRows', p).isBlocked = CellAt(tableRows', p).checked
       /\ lastOp' = "valueChange"
             => /\ SameShape(tableRows', tableRows)
                /\ \A p \in Positions(tableRows) :
                      /\ CellAt(tableRows', p).isBlocked = CellAt(tableRows, p).isBlocked
                      /\ CellAt(tableRows', p).checked = CellAt(tableRows, p).checked]_vars

\* The published counters are those of the grid.
CountersOfGrid ==
    /\ stats.total = Cardinality(Positions(tableRows))
    /\ stats.blocked
          = Cardinality({p \in Positions(tableRows) : CellAt(tableRows, p).isBlocked})
    /\ stats.merged
          = Cardinality({p \in Positions(tableRows) :
                            CellAt(tableRows, p).isMerged /\ ~CellAt(tableRows, p).isHidden})
    /\ stats.blank
          = Cardinality({p \in Positions(tableRows) :
                            CellAt(tableRows, p).isBlank /\ ~CellAt(tableRows, p).isHidden})

\* C10 (as claimed): the published counters are those of the current grid: total the
\* number of cells, blocked the cells with isBlocked, merged the visible cells with
\* isMerged, blank the visible cells with isBlank; and merged is the number of merge
\* groups, a group being the cells that share a non-empty group id.
C10_StatisticsConsistent ==
    GridExists => (CountersOfGrid /\ stats.merged = Cardinality(GroupIds(tableRows)))

\* The coordinates the handlers receive for the cell rendered at position p.
Coordinate(p) == <<CellAt(tableRows, p).rowIndex, CellAt(tableRows, p).columnIndex>>

\* The ids of the inclusive rectangle spanned by two coordinates.
RectOf(a, b) ==
    (Min({a[1], b[1]})..Max({a[1], b[1]})) \X (Min({a[2], b[2]})..Max({a[2], b[2]}))

\* C11 (as claimed): in a drag begun without shift, moving into a cell leaves the
\* selection equal to exactly the inclusive rectangle between the drag anchor and that
\* cell, whatever the selection was before the drag.
C11_DragContainment ==
    [][\A p \in ShapePositions :
          (isDragging /\ CellMouseEnter(p))
             => Range(selectedCells') = RectOf(dragStartCell, Coordinate(p))]_vars

\* C11 (amended): a mouse-down without shift keeps the selection it finds as the
\* restore-point and selects the pressed cell alone; moving into a cell then leaves the
\* selection equal to the restore-point united with the inclusive rectangle between the
\* drag anchor and that cell.
C11_DragUnion ==
    [][\A p \in ShapePositions :
          /\ (~isDragging /\ CellMouseDown(p, FALSE))
                => /\ preSelectionRef' = selectedCells
                   /\ dragStartCell' = Coordinate(p)
                   /\ selectedCells' = <<Coordinate(p)>>
          /\ (isDragging /\ CellMouseEnter(p))
                => /\ Range(selectedCells')
                         = Range(preSelectionRef) \cup RectOf(dragStartCell, Coordinate(p))
                   /\ UNCHANGED <<preSelectionRef, dragStartCell>>]_vars

\* With (1,1) selected beforehand, a drag from (2,2) has moved up-left into (2,1).
C11_Witness ==
    /\ isDragging
    /\ dragStartCell = <<2, 2>>
    /\ Range(preSelectionRef) = {<<1, 1>>}
    /\ Range(selectedCells) = {<<1, 1>>, <<2, 1>>, <<2, 2>>}

\* The snapshot attribute holds the encoding of the given grid and dimensions.
SnapshotOf(data, rows, rowCnt, colCnt) ==
    /\ data.kind = "json"
    /\ Has(data, "updatedAt")
    /\ data.tableRows = rows
    /\ data.rows = rowCnt
    /\ data.columns = colCnt

\* C12 (as claimed): every step in which a handler installs a new grid (value edit,
\* checkbox toggle, merge, unmerge, blank, unblank, addRow, addColumn, resize) leaves in
\* the snapshot attribute the encoding of the grid and the dimensions after the step,
\* under every configuration.
C12_MutationPersisted ==
    [][edits' # edits
          => SnapshotOf(useAttributeData', tableRows', rowCount', columnCount')]_vars

\* The snapshot attribute holds a decodable snapshot that the component has neither
\* written nor loaded: with a save in flight, one the host supplied during the save.
ExternalPending == useAttributeData # lastSavedDataRef /\ Decode(useAttributeData).ok

\* The step loads the snapshot found in the snapshot attribute.
LoadsPending == lastSavedDataRef' = useAttributeData

\* The host's write of a snapshot during a save changes nothing of the grid.
IgnoredWhileSaving ==
    \A data \in HostData :
        (isSaving /\ HostSetsData(data))
           => UNCHANGED <<tableRows, rowCount, columnCount, selectedCells, isSelectionMode>>

\* C13 (as claimed): a snapshot that the host supplies while a save is in flight does
\* not replace the grid, the dimensions or the selection when it is supplied, and is
\* not loaded over the user's grid afterwards.
C13_SaveInFlightPriority ==
    [][/\ IgnoredWhileSaving
       /\ (isSaving /\ ExternalPending) => ~LoadsPending]_vars

\* A snapshot written by saveToBackend: only the component's encoding has a timestamp.
OwnSnapshot(data) == data.kind = "json" /\ Has(data, "updatedAt")

\* C14 (as claimed): the host's delivery of a snapshot that the component itself
\* produced, whenever it comes, replaces neither the grid nor the dimensions nor the
\* selection, and neither does the end of a save that finds such a snapshot in the
\* snapshot attribute.
C14_EchoSuppressed ==
    [][/\ HostSetsData(StartupSnapshot)
             => UNCHANGED <<tableRows, rowCount, columnCount, selectedCells, isSelectionMode>>
       /\ (OwnSnapshot(useAttributeData) /\ SaveTimer)
             => UNCHANGED <<tableRows, rowCount, columnCount, selectedCells, isSelectionMode>>]_vars

GridAndCounters ==
    <<tableRows, rowCount, columnCount, selectedCells, isSelectionMode, stats>>

\* C15: a snapshot that cannot be parsed, or has rows <= 0, columns <= 0, no tableRows or
\* a row without cells, is refused by the decode without an error, and neither its
\* delivery nor the end of a save that finds it in the snapshot attribute changes the
\* grid, the dimensions, the selection or the published counters.
C15_MalformedIgnored ==
    [][/\ \A data \in MalformedData :
             HostSetsData(data) => ~Decode(data).ok /\ UNCHANGED GridAndCounters
       /\ (useAttributeData \in MalformedData /\ SaveTimer) => UNCHANGED GridAndCounters]_vars

\* A malformed snapshot has just been delivered to a grid with a selection and a
\* blocked cell, with no save in flight.
C15_Witness ==
    /\ lastOp = "hostData"
    /\ useAttributeData = ZeroRowsData
    /\ ~isSaving
    /\ Len(tableRows) = 1
    /\ selectedCells # <<>>
    /\ stats.blocked = 1

\* The visible cell of a merge group, and the rectangle its spans describe.
IsAnchor(p) == CellAt(tableRows, p).isMerged /\ ~CellAt(tableRows, p).isHidden

RegionOf(p) ==
    LET cell == CellAt(tableRows, p)
    IN  <<cell.rowIndex, cell.columnIndex,
          cell.rowIndex + cell.rowSpan - 1, cell.columnIndex + cell.colSpan - 1>>

\* C16 (as claimed): two merge groups of the grid that cover different rectangles
\* have different group ids, the ids derived from their bounds being different.
C16_MergeIdsIdentifyRegions ==
    \A p, q \in {a \in Positions(tableRows) : IsAnchor(a)} :
        RegionOf(p) # RegionOf(q)
            => /\ createMergeId(RegionOf(p)[1], RegionOf(p)[2], RegionOf(p)[3], RegionOf(p)[4])
                    # createMergeId(RegionOf(q)[1], RegionOf(q)[2], RegionOf(q)[3], RegionOf(q)[4])
               /\ CellAt(tableRows, p).mergeId # CellAt(tableRows, q).mergeId

InBox(cell, b) ==
    /\ cell.rowIndex \in b.minRow..b.maxRow
    /\ cell.columnIndex \in b.minCol..b.maxCol

\* The ids of the groups that have a cell in the rectangle.
Overlapped(rows, b) == {cell.mergeId : cell \in {c \in AllCells(rows) : InBox(c, b)}} \ {<<>>}

\* A merge request that mergeCells accepted and that installed a new grid.
MergeAccepted == lastOp' = "merge" /\ edits' # edits

\* C17: an accepted merge leaves every cell outside the rectangle that belonged to a
\* group with a cell in the rectangle unmerged, visible, with spans 1 and no group id;
\* no cell keeps the id of such a group unless it is the id of the new group; and
\* every cell outside the rectangle and outside those groups is unchanged.
C17_MergeDissolvesOverlapped ==
    [][MergeAccepted =>
          /\ SameShape(tableRows, tableRows')
          /\ \A p \in Positions(tableRows) :
                /\ (/\ ~InBox(CellAt(tableRows, p), Bounds(selectedCells))
                    /\ CellAt(tableRows, p).mergeId \in Overlapped(tableRows, Bounds(selectedCells)))
                      => DefaultShape(CellAt(tableRows', p))
                /\ (/\ ~InBox(CellAt(tableRows, p), Bounds(selectedCells))
                    /\ CellAt(tableRows, p).mergeId \notin Overlapped(tableRows, Bounds(selectedCells)))
                      => CellAt(tableRows', p) = CellAt(tableRows, p)
                /\ CellAt(tableRows', p).mergeId \in Overlapped(tableRows, Bounds(selectedCells))
                      => CellAt(tableRows', p).mergeId
                            = createMergeId(Bounds(selectedCells).minRow, Bounds(selectedCells).minCol,
                                            Bounds(selectedCells).maxRow, Bounds(selectedCells).maxCol)]_vars

\* A merge has just dissolved a group that had a cell in the rectangle and a cell
\* outside of it, next to a cell that belonged to neither.
C17_Witness ==
    /\ lastOp = "merge"
    /\ mergeTrail.stage = "merged"
    /\ \E p, q, o \in Positions(mergeTrail.before) :
          /\ InBox(CellAt(mergeTrail.before, p), mergeTrail.rect)
          /\ ~InBox(CellAt(mergeTrail.before, q), mergeTrail.rect)
          /\ CellAt(mergeTrail.before, p).mergeId # <<>>
          /\ CellAt(mergeTrail.before, p).mergeId = CellAt(mergeTrail.before, q).mergeId
          /\ ~InBox(CellAt(mergeTrail.before, o), mergeTrail.rect)
          /\ CellAt(mergeTrail.before, o).mergeId = <<>>

\* The state that a merge group shares.
GroupFields(cell) == <<cell.sequenceNumber, cell.checked, cell.isBlocked, cell.isBlank>>

\* Every cell of rows with coordinates in b holds the group fields of topLeft.
HoldsTopLeft(rows, b, topLeft) ==
    \A cell \in AllCells(rows) : InBox(cell, b) => GroupFields(cell) = GroupFields(topLeft)

\* C18 (as claimed): after an accepted merge every cell of the rectangle holds the sequenceNumber,
\* checked, isBlocked and isBlank that the top-left cell had before the merge, the
\* selection is the id of the top-left cell alone, and selection mode is on.
C18_MergeResult ==
    [][MergeAccepted =>
          /\ HoldsTopLeft(tableRows', Bounds(selectedCells),
                          CellAt(tableRows, FindCell(tableRows, Bounds(selectedCells).minRow,
                                                     Bounds(selectedCells).minCol)))
          /\ selectedCells' = <<CellId(Bounds(selectedCells).minRow, Bounds(selectedCells).minCol)>>
          /\ isSelectionMode']_vars

\* The position of the cell that the first selected id names, <<>> when there is none.
FirstSelected ==
    IF Len(selectedCells) = 0 THEN <<>>
    ELSE FindCell(tableRows, selectedCells[1][1], selectedCells[1][2])

\* The step resets exactly the cells carrying the group id and nothing else.
ResetsGroup(id) ==
    /\ SameShape(tableRows, tableRows')
    /\ \A p \in Positions(tableRows) :
          /\ GroupFields(CellAt(tableRows', p)) = GroupFields(CellAt(tableRows, p))
          /\ CellAt(tableRows, p).mergeId = id => DefaultShape(CellAt(tableRows', p))
          /\ CellAt(tableRows, p).mergeId # id => CellAt(tableRows', p) = CellAt(tableRows, p)

\* C19: an unmerge request whose first selected cell is not merged leaves the grid as
\* it is and writes no snapshot; one whose first selected cell is merged resets
\* exactly the cells sharing that cell's group id to isMerged = false, spans 1, visible,
\* no group id, and changes neither sequenceNumber, checked, isBlocked or isBlank of any
\* cell nor any field of a cell outside the group.
C19_UnmergeFrame ==
    [][lastOp' = "unmerge" =>
          IF FirstSelected = <<>> \/ ~CellAt(tableRows, FirstSelected).isMerged
          THEN UNCHANGED tableRows /\ NoSnapshot
          ELSE ResetsGroup(CellAt(tableRows, FirstSelected).mergeId)]_vars

\* A group has just been unmerged next to another group, whose cells differ from
\* the cells of the unmerged one.
C19_Witness ==
    /\ lastOp = "unmerge"
    /\ mergeTrail.stage = "unmerged"
    /\ \E p, q \in Positions(tableRows) :
          /\ CellAt(tableRows, p).isMerged
          /\ InBox(CellAt(tableRows, q), mergeTrail.rect)
          /\ GroupFields(CellAt(tableRows, p)) # GroupFields(CellAt(tableRows, q))

\* The positions of the selected cells that are not hidden.
SelectedVisible ==
    {p \in Positions(tableRows) :
        /\ Coordinate(p) \in Range(selectedCells)
        /\ ~CellAt(tableRows, p).isHidden}

\* The selected cells that are not hidden and the cells sharing a group id with one.
BlankTargets ==
    SelectedVisible
       \cup {p \in Positions(tableRows) :
                /\ CellAt(tableRows, p).mergeId # <<>>
                /\ \E q \in SelectedVisible :
                      CellAt(tableRows, q).mergeId = CellAt(tableRows, p).mergeId}

\* The step sets isBlank to flag on the targets, changes nothing else in the grid
\* and ends with an empty selection and selection mode off.
BlanksTargets(flag) ==
    /\ SameShape(tableRows, tableRows')
    /\ \A p \in Positions(tableRows) :
          CellAt(tableRows', p)
             = IF p \in BlankTargets THEN [CellAt(tableRows, p) EXCEPT !.isBlank = flag]
                                     ELSE CellAt(tableRows, p)
    /\ selectedCells' = <<>>
    /\ ~isSelectionMode'

\* C20 (as claimed): blank (unblank) sets isBlank to true (false) on exactly the selected cells
\* that are not hidden and the cells sharing a group id with one of them, a selected
\* hidden cell being skipped; no other field of any cell changes; afterwards the
\* selection is empty and selection mode is off.
C20_BlankFrame ==
    [][/\ lastOp' = "blank" => BlanksTargets(TRUE)
       /\ lastOp' = "unblank" => BlanksTargets(FALSE)]_vars

\* The selection a click on the cell with id x has to leave, as a set.
Clicked(sel, x, isCtrlOrCmd) ==
    IF isCtrlOrCmd /\ x \in sel /\ sel # {x} THEN sel \ {x} ELSE sel \cup {x}

\* C21: with selection allowed, selection mode on and no drag in progress, a click
\* on cell x without modifier leaves the old selection united with {x}; a click with
\* the modifier toggles x's membership, leaving the set as it is when x is its only
\* member; the selection is not empty afterwards.
C21_ClickInSelectionMode ==
    [][\A p \in ShapePositions, isCtrlOrCmd \in BOOLEAN :
          (isSelectionAllowed /\ isSelectionMode /\ ~isDragging /\ CellClick(p, isCtrlOrCmd))
             => /\ Range(selectedCells')
                      = Clicked(Range(selectedCells), Coordinate(p), isCtrlOrCmd)
                /\ selectedCells' # <<>>
                /\ isSelectionMode']_vars

\* A click in selection mode has just been handled and the diagonal {(1,1), (2,2)}
\* is selected.
C21_Witness ==
    /\ lastOp = "click"
    /\ isSelectionMode
    /\ ~isDragging
    /\ Range(selectedCells) = {<<1, 1>>, <<2, 2>>}

\* The component's state apart from the history of the handlers.
ComponentState ==
    << rowCountAttribute, columnCountAttribute, useAttributeData, rowCount, columnCount,
       tableRows, selectedCells, isSelectionMode, isDragging, dragStartCell,
       preSelectionRef, isSaving, dataLoaded, lastSavedDataRef, isUserInputRef,
       ignoreAttributeUpdateRef, stats, saveTimers, userInputTimers, startupTimer >>

\* C22: with neither merging nor blanking enabled, after every step the selection is
\* empty, selection mode is off and no drag is in progress, and a click executes the
\* click notification and changes nothing in the component.
C22_SelectionDisallowed ==
    [][~isSelectionAllowed =>
          /\ selectedCells' = <<>>
          /\ ~isSelectionMode'
          /\ ~isDragging'
          /\ dragStartCell' = <<>>
          /\ lastOp' = "click" => clickNotified' /\ UNCHANGED ComponentState]_vars

\* A click has just been handled on a grid with selection disallowed.
C22_Witness ==
    /\ ~isSelectionAllowed
    /\ lastOp = "click"
    /\ clickNotified
    /\ Len(tableRows) > 0
    /\ edits > 0

\* C23: a mouse-up during a drag ends it (dragging false, anchor cleared, restore-point
\* emptied) and leaves the selection as it is; with no drag in progress a mouse-enter
\* leaves the selection as it is; and a drag begins with a mouse-down only.
C23_DragProtocolEnd ==
    [][/\ (isDragging /\ MouseUp)
             => /\ ~isDragging'
                /\ dragStartCell' = <<>>
                /\ preSelectionRef' = <<>>
                /\ UNCHANGED selectedCells
       /\ \A p \in ShapePositions :
             (~isDragging /\ CellMouseEnter(p)) => UNCHANGED <<selectedCells, isDragging>>
       /\ (~isDragging /\ isDragging')
             => \E p \in ShapePositions, shiftKey \in BOOLEAN : CellMouseDown(p, shiftKey)]_vars

\* A drag over two cells has been ended by a mouse-up: its selection remains.
C23_Witness ==
    /\ ~isDragging
    /\ dragStartCell = <<>>
    /\ preSelectionRef = <<>>
    /\ isSelectionMode
    /\ Range(selectedCells) = {<<1, 1>>, <<1, 2>>}

\* C24: a mouse-down, with or without the shift key, keeps the selection as it was
\* as the restore-point and the pressed cell as the anchor; during the drag each
\* mouse-enter sets the selection to the restore-point united with all ids of the
\* inclusive rectangle between the anchor and the entered cell, whatever the cells
\* of the rectangle are, and what an earlier move added beyond that is dropped.
C24_DragMove ==
    [][lastOp' = Silent =>
          \A p \in Rendered :
             /\ \A shiftKey \in BOOLEAN :
                   CellMouseDown(p, shiftKey)
                      => /\ preSelectionRef' = selectedCells
                         /\ dragStartCell' = Coordinate(p)
                         /\ isDragging'
             /\ (isDragging /\ CellMouseEnter(p))
                   => /\ Range(selectedCells')
                            = Range(preSelectionRef) \cup RectOf(dragStartCell, Coordinate(p))
                      /\ UNCHANGED <<preSelectionRef, dragStartCell, isDragging>>]_vars

\* During a drag from (2,2), begun with the anchor (1,1) of the group (1,1)-(1,2)
\* selected, the whole grid is selected, the hidden cell (1,2) included.
C24_Witness ==
    /\ isDragging
    /\ dragStartCell = <<2, 2>>
    /\ Range(preSelectionRef) = {<<1, 1>>}
    /\ Len(tableRows) = 2
    /\ tableRows[1].cells[2].isHidden
    /\ Range(selectedCells) = {<<1, 1>>, <<1, 2>>, <<2, 1>>, <<2, 2>>}

\* C25 (as claimed): the suppression flag does not outlive the update cycle of the
\* component's own write: a count that the host writes later, valid and different from
\* the current one, with no user input pending, is taken over.
C25_FlagSwallowsOnlyEcho ==
    [][\A v \in HostCounts :
          /\ (~isUserInputRef /\ v # rowCount /\ HostSetsRowCount(v)) => rowCount' = v
          /\ (~isUserInputRef /\ v # columnCount /\ HostSetsColumnCount(v)) => columnCount' = v]_vars

\* The number of columns of the grid: the length of its first row.
GridColumns(rows) == IF rows = <<>> THEN 0 ELSE Len(rows[1].cells)

\* C26 (as claimed): on a grid of r rows and c columns, addRow with r < 100 appends the
\* row of c default cells at positions (r + 1, 1..c) and keeps the first r rows, and
\* with r = 100 changes nothing; addColumn with c < 100 appends the default cell
\* (i, c + 1) to every row i, and with c = 100 changes nothing.
C26_AddRowAddColumn ==
    [][/\ AddRow =>
            IF Len(tableRows) < MaxDimension
            THEN tableRows' = Append(tableRows,
                                     DefaultRow(Len(tableRows) + 1, GridColumns(tableRows)))
            ELSE UNCHANGED ComponentState
       /\ AddColumn =>
            IF GridColumns(tableRows) < MaxDimension
            THEN tableRows' = [i \in 1..Len(tableRows) |->
                                  [tableRows[i] EXCEPT !.cells =
                                      Append(@, DefaultCell(i, GridColumns(tableRows) + 1))]]
            ELSE UNCHANGED ComponentState]_vars

\* After the step the grid holds the decode of the given snapshot as far as isBlocked and
\* checked go, and nothing is selected.
DecodedAs(data) ==
    /\ Len(tableRows') = Len(data.tableRows)
    /\ \A i \in 1..Len(data.tableRows) :
          /\ Len(tableRows'[i].cells) = Len(data.tableRows[i].cells)
          /\ \A j \in 1..Len(data.tableRows[i].cells) :
                LET doc == data.tableRows[i].cells[j]
                    cell == tableRows'[i].cells[j]
                IN  /\ cell.isBlocked = IF Has(doc, "isBlocked") THEN doc.isBlocked
                                        ELSE cell.checked
                    /\ ~Has(doc, "checked") => ~cell.checked
    /\ selectedCells' = <<>>
    /\ ~isSelectionMode'

C28_BlockedMirrorsChecked ==
    \A p \in Positions(tableRows) :
        CellAt(tableRows, p).isBlocked = CellAt(tableRows, p).checked

\* A checked cell was merged with a cell added after it: both cells of the group are
\* checked and blocked.
C28_Witness ==
    /\ lastOp = "merge"
    /\ Cardinality(Positions(tableRows)) = 2
    /\ \A p \in Positions(tableRows) :
          /\ CellAt(tableRows, p).isMerged
          /\ CellAt(tableRows, p).checked
          /\ CellAt(tableRows, p).isBlocked

\* The grid of default cells of the initial size: the count attributes' values where
\* the host supplies them, 3 x 3 otherwise.
InitialDefaultGrid ==
    NewTableRows(IF rowCountAttribute.available THEN rowCountAttribute.value
                 ELSE DefaultDimension,
                 IF columnCountAttribute.available THEN columnCountAttribute.value
                 ELSE DefaultDimension)

\* C29 (as claimed): a start-up that finds no snapshot, or one that does not decode,
\* leads to a state in which the default grid of the initial size exists; a start-up
\* that finds a decodable snapshot installs its decode at mount, and the start-up timer
\* never builds a default grid once data is loaded.
C29_StartupInitialization ==
    /\ (~Mounted /\ ~Decode(useAttributeData).ok)
          ~> (tableRows # <<>> /\ tableRows = InitialDefaultGrid)
    /\ [][/\ (Decode(useAttributeData).ok /\ Mount)
                => tableRows' = Decode(useAttributeData).tableRows
          /\ dataLoaded => ~StartupTimer]_vars

\* C30 (as claimed): every selected id is the id of a cell of the current grid.
C30_SelectedIdsExist == Range(selectedCells) \subseteq Positions(tableRows)

\* C31 (as claimed): in every reachable state selection mode is on exactly when the
\* selection is not empty.
C31_ModeMatchesSelection == isSelectionMode <=> selectedCells # <<>>

\* C32 (as claimed): with auto-save enabled, once the user's edits have stopped the
\* component reaches a state from which no save is in flight any more.
C32_SavingQuiesces == props.autoSave => <>[]~isSaving

====
